---- MODULE Spec2Model ----
(***************************************************************************)
(* Analytics aggregation and LLM-orchestration core of the automotive      *)
(* analytics application: the NL-query translator, the insights / report / *)
(* RAG services and the analytics calculators they are built on.           *)
(*                                                                         *)
(* Text is modelled as a sequence of one-character strings, so that        *)
(* upper-casing, stripping, prefix and substring tests are computed on the *)
(* characters as the Python code computes them.  The backtick character is *)
(* written "bt".  Money is an integer number of currency units, a ratio is *)
(* a record [num, den], a date is a day number.                            *)
(***************************************************************************)
EXTENDS Integers, Sequences, FiniteSets, TLC, Bags

VARIABLES
    sales,          \* storage: the sales table, a bag of sale rows
    inventory,      \* storage: the inventory table joined with vehicles, a bag of rows
    insight_history,\* storage: the InsightHistory table, oldest first
    today,          \* datetime.now().date(), a day number
    op,             \* the service operation in progress ("none" when idle)
    pc,             \* its position
    sql_query,      \* process_query: the statement _generate_sql returned
    results,        \* process_query: the rows _execute_query returned (a row count) or None
    response,       \* what the operation returned to its caller
    raised,         \* the exception that escaped the operation to its caller, or None
    calls,          \* gateway / storage calls issued by the operation in progress
    qlog,           \* process_query: what was validated, executed and which calls failed
    a_call,         \* analytics: the calculator method last called, with its arguments
    a_result,       \* analytics: what that call returned or raised
    frame,          \* pipeline: the DataFrame the caller of the aggregator holds
    snapshots,      \* storage: the AnalyticsSnapshot table, oldest first
    inventory_rows, \* storage: the Inventory rows the repositories update, by id
    sessions        \* the update_stock calls in flight, each in a Session of its own

vars == <<sales, inventory, insight_history, today, op, pc, sql_query, results,
          response, raised, calls, qlog, a_call, a_result, frame, snapshots,
          inventory_rows, sessions>>

storageVars == <<sales, inventory, insight_history, today>>
serviceVars == <<op, pc, sql_query, results, response, raised, calls, qlog>>
analyticsVars == <<a_call, a_result>>
pipelineVars == <<frame, snapshots, inventory_rows, sessions>>

None == "None"

(***************************************************************************)
(* Text helpers: str.upper, str.strip, str.startswith, str.endswith,       *)
(* the `in` substring test, re.sub(pattern, "", s), str.split, str.join.   *)
(***************************************************************************)
UpperMap ==
    ("a" :> "A" @@ "b" :> "B" @@ "c" :> "C" @@ "d" :> "D" @@ "e" :> "E" @@
     "f" :> "F" @@ "g" :> "G" @@ "h" :> "H" @@ "i" :> "I" @@ "j" :> "J" @@
     "k" :> "K" @@ "l" :> "L" @@ "m" :> "M" @@ "n" :> "N" @@ "o" :> "O" @@
     "p" :> "P" @@ "q" :> "Q" @@ "r" :> "R" @@ "s" :> "S" @@ "t" :> "T" @@
     "u" :> "U" @@ "v" :> "V" @@ "w" :> "W" @@ "x" :> "X" @@ "y" :> "Y" @@
     "z" :> "Z")

UpperChar(c) == IF c \in DOMAIN UpperMap THEN UpperMap[c] ELSE c

Upper(s) == [i \in 1..Len(s) |-> UpperChar(s[i])]

IsSpace(c) == c \in {" ", "\t", "\n", "\r"}

Strip(s) ==
    LET keep == {i \in 1..Len(s) : ~IsSpace(s[i])}
    IN  IF keep = {} THEN <<>>
        ELSE LET lo == CHOOSE i \in keep : \A j \in keep : i <= j
                 hi == CHOOSE i \in keep : \A j \in keep : j <= i
             IN  SubSeq(s, lo, hi)

StartsWith(s, p) == Len(s) >= Len(p) /\ SubSeq(s, 1, Len(p)) = p

EndsWith(s, p) == Len(s) >= Len(p) /\ SubSeq(s, Len(s) - Len(p) + 1, Len(s)) = p

Contains(s, p) == \E i \in 1..(Len(s) - Len(p) + 1) : SubSeq(s, i, i + Len(p) - 1) = p

RECURSIVE RemoveAll(_, _)
\* re.sub(p, "", s): the occurrences of p are removed from the left, one
\* after the other
RemoveAll(s, p) ==
    LET hits == {i \in 1..(Len(s) - Len(p) + 1) : SubSeq(s, i, i + Len(p) - 1) = p}
    IN  IF hits = {} THEN s
        ELSE LET k == CHOOSE i \in hits : \A j \in hits : i <= j
             IN  SubSeq(s, 1, k - 1) \o RemoveAll(SubSeq(s, k + Len(p), Len(s)), p)

RECURSIVE SplitLines(_)
SplitLines(s) ==
    LET nl == {i \in 1..Len(s) : s[i] = "\n"}
    IN  IF nl = {} THEN <<s>>
        ELSE LET k == CHOOSE i \in nl : \A j \in nl : i <= j
             IN  <<SubSeq(s, 1, k - 1)>> \o SplitLines(SubSeq(s, k + 1, Len(s)))

RECURSIVE JoinWith(_, _)
JoinWith(parts, sep) ==
    IF parts = <<>> THEN <<>>
    ELSE IF Len(parts) = 1 THEN parts[1]
    ELSE parts[1] \o sep \o JoinWith(Tail(parts), sep)

(***************************************************************************)
(* The model responses of the SQL-generator persona: up to                 *)
(* MaxResponseLines lines, each one of ResponseLines, joined by newlines.  *)
(***************************************************************************)
\* "SELECT"
KwSelect ==
    <<"S", "E", "L", "E", "C", "T">>
\* "SELECT * FROM sales;"
LineSafe ==
    <<"S", "E", "L", "E", "C", "T", " ", "*", " ", "F", "R", "O", "M", " ", "s", "a",
      "l", "e", "s", ";">>
\* "SELECT * FROM sales; DROP TABLE sales;"
LineInject ==
    <<"S", "E", "L", "E", "C", "T", " ", "*", " ", "F", "R", "O", "M", " ", "s", "a",
      "l", "e", "s", ";", " ", "D", "R", "O", "P", " ", "T", "A", "B", "L", "E", " ",
      "s", "a", "l", "e", "s", ";">>
\* "select region"
LineOpen ==
    <<"s", "e", "l", "e", "c", "t", " ", "r", "e", "g", "i", "o", "n">>
\* "FROM sales;"
LineFrom ==
    <<"F", "R", "O", "M", " ", "s", "a", "l", "e", "s", ";">>
\* "delete from sales;"
LineDelete ==
    <<"d", "e", "l", "e", "t", "e", " ", "f", "r", "o", "m", " ", "s", "a", "l", "e",
      "s", ";">>
\* " SELECT created_at FROM vehicles;"
LineCreated ==
    <<" ", "S", "E", "L", "E", "C", "T", " ", "c", "r", "e", "a", "t", "e", "d", "_",
      "a", "t", " ", "F", "R", "O", "M", " ", "v", "e", "h", "i", "c", "l", "e", "s",
      ";">>
\* three backticks followed by "sql"
LineFence ==
    <<"bt", "bt", "bt", "s", "q", "l">>
\* three backticks
LineFenceEnd ==
    <<"bt", "bt", "bt">>
\* "Here is the query:"
LineProse ==
    <<"H", "e", "r", "e", " ", "i", "s", " ", "t", "h", "e", " ", "q", "u", "e", "r",
      "y", ":">>

ResponseLines ==
    {LineSafe, LineInject, LineOpen, LineFrom, LineDelete, LineCreated,
     LineFence, LineFenceEnd, LineProse}

MaxResponseLines == 3

ResponseTexts ==
    {JoinWith(ls, <<"\n">>) :
        ls \in UNION {[1..n -> ResponseLines] : n \in 0..MaxResponseLines}}

(***************************************************************************)
(* NLQueryService._extract_sql                                             *)
(***************************************************************************)
RECURSIVE CollectSqlToEnd(_, _)
\* variant: the loop does not stop at a line that ends with ";"
CollectSqlToEnd(lines, in_query) ==
    IF lines = <<>> THEN <<>>
    ELSE LET line == Strip(lines[1])
             inq  == in_query \/ StartsWith(Upper(line), KwSelect)
         IN  IF ~inq THEN CollectSqlToEnd(Tail(lines), FALSE)
             ELSE <<line>> \o CollectSqlToEnd(Tail(lines), TRUE)

RECURSIVE CollectSql(_, _)
\* the for loop of _extract_sql over the remaining lines
CollectSql(lines, in_query) ==
    IF lines = <<>> THEN <<>>
    ELSE LET line == Strip(lines[1])
             inq  == in_query \/ StartsWith(Upper(line), KwSelect)
         IN  IF ~inq THEN CollectSql(Tail(lines), FALSE)
             ELSE IF EndsWith(line, <<";">>) THEN <<line>>
             ELSE <<line>> \o CollectSql(Tail(lines), TRUE)

ExtractSql(resp) ==
    LET r1 == RemoveAll(resp, <<"bt", "bt", "bt", "s", "q", "l", "\n">>)
        r2 == RemoveAll(r1, <<"bt", "bt", "bt", "\n">>)
        r3 == RemoveAll(r2, <<"bt", "bt", "bt">>)
    IN  Strip(JoinWith(CollectSql(SplitLines(r3), FALSE), <<" ">>))

\* what _extract_sql makes of the model responses
CandidateSqls == {ExtractSql(text) : text \in ResponseTexts}

(***************************************************************************)
(* NLQueryService._is_safe_query                                           *)
(***************************************************************************)
DangerousKeywords ==
    << <<"I", "N", "S", "E", "R", "T">>,
       <<"U", "P", "D", "A", "T", "E">>,
       <<"D", "E", "L", "E", "T", "E">>,
       <<"D", "R", "O", "P">>,
       <<"C", "R", "E", "A", "T", "E">>,
       <<"A", "L", "T", "E", "R">>,
       <<"T", "R", "U", "N", "C", "A", "T", "E">>,
       <<"E", "X", "E", "C">>,
       <<"E", "X", "E", "C", "U", "T", "E">> >>

\* a validator that only tests the SELECT prefix (sensitivity variant)
IsSafeQueryPrefixOnly(sql) == StartsWith(Strip(Upper(sql)), KwSelect)

IsSafeQuery(sql) ==
    LET sql_upper == Upper(sql)
    IN  /\ StartsWith(Strip(sql_upper), KwSelect)
        /\ \A k \in 1..Len(DangerousKeywords) : ~Contains(sql_upper, DangerousKeywords[k])

(***************************************************************************)
(* Payloads, exceptions and call counters shared by the service operations *)
(***************************************************************************)
NoResponse == [kind |-> "none"]

NoException == [type |-> "none", origin |-> "none"]

NoCalls == [llm_sql |-> 0, db_execute |-> 0, llm_explain |-> 0, llm |-> 0]

\* nothing was sent to the explanation call
NoContext == [rows |-> <<>>, more |-> -1]

NoQueryLog ==
    [validated |-> {}, executed |-> {}, stages |-> <<>>, llm_failed |-> {},
     exc_origin |-> "none", context |-> NoContext]

Bump(c, field) == [c EXCEPT ![field] = @ + 1]

ErrNoSql == "Could not generate SQL query"
ErrValidation == "Query validation failed - only SELECT queries are allowed"
ErrExecution == "Query execution failed"
ErrAIService == "AI service error"
ErrProcessing == "Query processing error"
FallbackExplanation == "Results retrieved successfully."
LlmText == "llm text"

\* the failure payloads of process_query
QueryFailure(error, sql) ==
    [kind |-> "query", success |-> FALSE, error |-> error, sql |-> sql,
     row_count |-> -1, results |-> <<>>, explanation |-> ""]

\* the n rows of a result, each known by its position
Rows(n) == [i \in 1..n |-> i]

\* the success payload of process_query: every formatted row and their number
QuerySuccess(sql, n, explanation) ==
    [kind |-> "query", success |-> TRUE, error |-> "", sql |-> sql,
     row_count |-> n, results |-> Rows(n), explanation |-> explanation]

\* variant: the except clause lets the provider's exception through
ProviderErrorPropagates(provider_exc) == provider_exc

\* OpenAIClient.chat_completion: every exception of the provider call is
\* re-raised as LLMServiceError
ChatCompletionRaises(provider_exc) == "LLMServiceError"

\* except clauses that would let the original exception type through
\* (sensitivity variant)
GenerateSqlKeepsType(exc_type) == exc_type

\* the except clauses of _generate_sql: whatever was raised inside, an
\* LLMServiceError leaves the method
GenerateSqlRaises(exc_type) ==
    IF exc_type = "LLMServiceError" THEN "LLMServiceError" ELSE "LLMServiceError"

\* the except clauses of process_query
QueryErrorMessage(exc_type) ==
    IF exc_type = "LLMServiceError" THEN ErrAIService ELSE ErrProcessing

\* _generate_explanation: the rows given to the model and the "more rows" note
PreviewLimit == 10

\* variant: every row is sent, with no note
ResultsWhole(n) == [rows |-> Rows(n), more |-> 0]

\* results[:10] and the number named in "... and N more rows" (0: no note)
ResultsPreview(n) ==
    [rows |-> IF n > PreviewLimit THEN SubSeq(Rows(n), 1, PreviewLimit) ELSE Rows(n),
     more |-> IF n > PreviewLimit THEN n - PreviewLimit ELSE 0]

MaxResultRows == 2

(***************************************************************************)
(* NLQueryService.process_query, one action per stage                      *)
(***************************************************************************)
Idle == pc = "idle"

\* a new invocation of a service operation: nothing is kept from the last one
Begin(name, first) ==
    /\ Idle
    /\ op' = name
    /\ pc' = first
    /\ sql_query' = <<>>
    /\ results' = -1
    /\ response' = NoResponse
    /\ raised' = NoException
    /\ calls' = NoCalls
    /\ qlog' = NoQueryLog

ProcessQuery ==
    /\ Begin("process_query", "generate_sql")
    /\ UNCHANGED <<storageVars, analyticsVars, pipelineVars>>

\* process_query ends with the failure payload of its except clause
QueryFails(exc_type, origin, failed) ==
    /\ pc' = "done"
    /\ response' = QueryFailure(QueryErrorMessage(exc_type), <<>>)
    /\ qlog' = [qlog EXCEPT !.stages = Append(@, "generate"),
                            !.exc_origin = origin,
                            !.llm_failed = @ \cup failed]
    /\ UNCHANGED <<sql_query>>

\* _generate_sql: the gateway call and _extract_sql
GenerateSql ==
    /\ op = "process_query" /\ pc = "generate_sql"
    /\ calls' = Bump(Bump(calls, "llm_sql"), "llm")
    /\ \/ \* the provider call fails
          QueryFails(GenerateSqlRaises(ChatCompletionRaises("APIError")), "llm", {"sql"})
       \/ \* the completion has no content: re.sub raises TypeError
          QueryFails(GenerateSqlRaises("TypeError"), "extract", {})
       \/ \E sql \in CandidateSqls :
            /\ sql_query' = sql
            /\ pc' = "validate"
            /\ qlog' = [qlog EXCEPT !.stages = Append(@, "generate")]
            /\ UNCHANGED response
    /\ UNCHANGED <<results, raised, op, storageVars, analyticsVars, pipelineVars>>

\* a validation stage that lets every non-empty statement through
\* (sensitivity variant)
ValidateSqlUnchecked ==
    /\ op = "process_query" /\ pc = "validate"
    /\ IF sql_query = <<>>
       THEN /\ response' = QueryFailure(ErrNoSql, <<>>)
            /\ pc' = "done"
            /\ UNCHANGED qlog
       ELSE /\ pc' = "execute"
            /\ qlog' = [qlog EXCEPT !.stages = Append(@, "validate"),
                                    !.validated = IF IsSafeQuery(sql_query)
                                                  THEN @ \cup {sql_query} ELSE @]
            /\ UNCHANGED response
    /\ UNCHANGED <<sql_query, results, raised, calls, op, storageVars, analyticsVars, pipelineVars>>

\* the `if not sql_query` return and the _is_safe_query check
ValidateSql ==
    /\ op = "process_query" /\ pc = "validate"
    /\ IF sql_query = <<>>
       THEN /\ response' = QueryFailure(ErrNoSql, <<>>)
            /\ pc' = "done"
            /\ UNCHANGED qlog
       ELSE IF ~IsSafeQuery(sql_query)
       THEN /\ response' = QueryFailure(ErrValidation, <<>>)
            /\ pc' = "done"
            /\ qlog' = [qlog EXCEPT !.stages = Append(@, "validate")]
       ELSE /\ pc' = "execute"
            /\ qlog' = [qlog EXCEPT !.stages = Append(@, "validate"),
                                    !.validated = @ \cup {sql_query}]
            /\ UNCHANGED response
    /\ UNCHANGED <<sql_query, results, raised, calls, op, storageVars, analyticsVars, pipelineVars>>

\* an execution stage that runs the statement a second time when the first
\* run raises (sensitivity variant)
ExecuteQueryRetrying ==
    /\ op = "process_query" /\ pc = "execute"
    /\ qlog' = [qlog EXCEPT !.stages = Append(@, "execute"),
                            !.executed = @ \cup {sql_query}]
    /\ \/ /\ calls' = Bump(Bump(calls, "db_execute"), "db_execute")
          /\ results' = -1
          /\ response' = QueryFailure(ErrExecution, sql_query)
          /\ pc' = "done"
       \/ \E n \in 0..MaxResultRows :
            /\ calls' = Bump(calls, "db_execute")
            /\ results' = n
            /\ pc' = "format"
            /\ UNCHANGED response
    /\ UNCHANGED <<sql_query, raised, op, storageVars, analyticsVars, pipelineVars>>

\* _execute_query and the `if results is None` return
ExecuteQueryOver(sizes) ==
    /\ op = "process_query" /\ pc = "execute"
    /\ calls' = Bump(calls, "db_execute")
    /\ qlog' = [qlog EXCEPT !.stages = Append(@, "execute"),
                            !.executed = @ \cup {sql_query}]
    /\ \/ \* db.execute raises: _execute_query returns None
          /\ results' = -1
          /\ response' = QueryFailure(ErrExecution, sql_query)
          /\ pc' = "done"
       \/ \E n \in sizes :
            /\ results' = n
            /\ pc' = "format"
            /\ UNCHANGED response
    /\ UNCHANGED <<sql_query, raised, op, storageVars, analyticsVars, pipelineVars>>

\* _execute_query with a result of up to MaxResultRows rows
ExecuteQuery == ExecuteQueryOver(0..MaxResultRows)

\* _format_results: isoformat() / float() of a value may raise, which the
\* last except clause of process_query turns into a failure payload
FormatResults ==
    /\ op = "process_query" /\ pc = "format"
    /\ \/ /\ pc' = "explain"
          /\ UNCHANGED <<response, qlog>>
       \/ /\ results > 0
          /\ pc' = "done"
          /\ response' = QueryFailure(QueryErrorMessage("ValueError"), <<>>)
          /\ qlog' = [qlog EXCEPT !.exc_origin = "format"]
    /\ UNCHANGED <<sql_query, results, raised, calls, op, storageVars, analyticsVars, pipelineVars>>

\* an explanation stage whose failed gateway call fails the query
\* (sensitivity variant)
GenerateExplanationSurfacing ==
    /\ op = "process_query" /\ pc = "explain"
    /\ calls' = Bump(Bump(calls, "llm_explain"), "llm")
    /\ \/ /\ response' = QuerySuccess(sql_query, results, LlmText)
          /\ qlog' = [qlog EXCEPT !.stages = Append(@, "explain")]
       \/ /\ response' = QueryFailure(ErrAIService, <<>>)
          /\ qlog' = [qlog EXCEPT !.stages = Append(@, "explain"),
                                  !.llm_failed = @ \cup {"explain"}]
    /\ pc' = "done"
    /\ UNCHANGED <<sql_query, results, raised, op, storageVars, analyticsVars, pipelineVars>>

\* _generate_explanation and the success payload
GenerateExplanation ==
    /\ op = "process_query" /\ pc = "explain"
    /\ \/ \* the gateway call returns text
          /\ calls' = Bump(Bump(calls, "llm_explain"), "llm")
          /\ response' = QuerySuccess(sql_query, results, LlmText)
          /\ qlog' = [qlog EXCEPT !.stages = Append(@, "explain"),
                                  !.context = ResultsPreview(results)]
       \/ \* the gateway call fails: except Exception returns the fallback text
          /\ calls' = Bump(Bump(calls, "llm_explain"), "llm")
          /\ response' = QuerySuccess(sql_query, results, FallbackExplanation)
          /\ qlog' = [qlog EXCEPT !.stages = Append(@, "explain"),
                                  !.llm_failed = @ \cup {"explain"},
                                  !.context = ResultsPreview(results)]
       \/ \* json.dumps of the preview raises: same fallback, no gateway call
          /\ results > 0
          /\ UNCHANGED calls
          /\ response' = QuerySuccess(sql_query, results, FallbackExplanation)
          /\ UNCHANGED qlog
    /\ pc' = "done"
    /\ UNCHANGED <<sql_query, results, raised, op, storageVars, analyticsVars, pipelineVars>>

(***************************************************************************)
(* Storage rows, bags of rows and the arithmetic of the calculators        *)
(***************************************************************************)
\* a sales row joined with its vehicle (DataExtractor.extract_sales*)
Sale(d, q, amt, v, reg) ==
    [sale_date |-> d, quantity |-> q, total_amount |-> amt, discount_applied |-> 5,
     vehicle_id |-> v, region |-> reg, customer_segment |-> "individual",
     category |-> IF v = 1 THEN "sedan" ELSE "suv"]

\* Inventory.status as the generator derives it from quantity and reorder point
StatusOf(qty, reorder_point) ==
    IF qty = 0 THEN "out_of_stock"
    ELSE IF qty < reorder_point THEN "low"
    ELSE "active"

\* an inventory row joined with its vehicle
\* (DataExtractor.extract_inventory_with_vehicle_info)
Stock(v, qty, reg) ==
    [vehicle_id |-> v, quantity_available |-> qty, quantity_reserved |-> 1,
     status |-> StatusOf(qty, 10), msrp |-> 3, region |-> reg,
     category |-> IF v = 1 THEN "sedan" ELSE "suv",
     warehouse_location |-> IF reg = "West" THEN "Los Angeles DC" ELSE "Chicago DC"]

RECURSIVE SumFn(_)
SumFn(f) ==
    IF DOMAIN f = {} THEN 0
    ELSE LET x == CHOOSE x \in DOMAIN f : TRUE
         IN  f[x] + SumFn([y \in DOMAIN f \ {x} |-> f[y]])

\* the sum of a column over a table (each row counted with its multiplicity)
ColumnSum(b, F(_)) == SumFn([e \in DOMAIN b |-> b[e] * F(e)])

\* len(df)
RowCount(b) == SumFn([e \in DOMAIN b |-> b[e]])

\* the rows of a table that satisfy a filter
Where(b, P(_)) == [e \in {x \in DOMAIN b : P(x)} |-> b[e]]

RECURSIVE SortedSeq(_)
\* the elements of a set of integers in ascending order
SortedSeq(S) ==
    IF S = {} THEN <<>>
    ELSE LET m == CHOOSE m \in S : \A x \in S : m <= x
         IN  <<m>> \o SortedSeq(S \ {m})

\* a quotient of two integers, kept exact
Ratio(n, d) == [num |-> n, den |-> d]

RatioZero == Ratio(0, 1)

RatioEq(a, b) == a.num * b.den = b.num * a.den

RatioLeq(a, b) == a.num * b.den <= b.num * a.den

RatioPos(a) == a.num > 0

Raised(exc) == [status |-> "raised", exc |-> exc]

Returned(v) == [status |-> "ok", value |-> v]

(***************************************************************************)
(* DataExtractor.extract_sales: the date filters of the query              *)
(* (a start or end date of 0 stands for None)                              *)
(***************************************************************************)
ExtractSales(start_date, end_date) ==
    Where(sales, LAMBDA r : /\ (start_date = 0 \/ r.sale_date >= start_date)
                            /\ (end_date = 0 \/ r.sale_date <= end_date))

(***************************************************************************)
(* SalesAnalytics                                                          *)
(***************************************************************************)
EmptySalesSummary ==
    [total_revenue |-> 0, total_units |-> 0, total_transactions |-> 0,
     avg_transaction_value |-> RatioZero, avg_discount |-> RatioZero]

GetSalesSummary(start_date, end_date) ==
    LET df == ExtractSales(start_date, end_date)
        n  == RowCount(df)
    IN  IF n = 0 THEN EmptySalesSummary
        ELSE [total_revenue |-> ColumnSum(df, LAMBDA r : r.total_amount),
              total_units |-> ColumnSum(df, LAMBDA r : r.quantity),
              total_transactions |-> n,
              avg_transaction_value |->
                  Ratio(ColumnSum(df, LAMBDA r : r.total_amount), n),
              avg_discount |-> Ratio(ColumnSum(df, LAMBDA r : r.discount_applied), n),
              period_start |-> start_date,
              period_end |-> end_date]

\* the guarded percentage change of compare_periods
ChangePct(current, previous) ==
    IF previous > 0 THEN Ratio((current - previous) * 100, previous) ELSE RatioZero

ComparePeriods(current_start, current_end, previous_start, previous_end) ==
    LET current  == GetSalesSummary(current_start, current_end)
        previous == GetSalesSummary(previous_start, previous_end)
    IN  Returned(
          [current_period |-> current,
           previous_period |-> previous,
           revenue_change |-> current.total_revenue - previous.total_revenue,
           revenue_change_pct |->
               ChangePct(current.total_revenue, previous.total_revenue),
           units_change |-> current.total_units - previous.total_units,
           units_change_pct |-> ChangePct(current.total_units, previous.total_units)])

\* one aggregated row per key of a grouping column, in key order
\* (DataAggregator.aggregate_sales_by_region / _by_category / _by_customer_segment)
GroupRows(df, key_order, K(_)) ==
    LET present == SelectSeq(key_order, LAMBDA k : \E r \in DOMAIN df : K(r) = k)
    IN  [i \in 1..Len(present) |->
            LET g == Where(df, LAMBDA r : K(r) = present[i])
            IN  [key |-> present[i],
                 quantity |-> ColumnSum(g, LAMBDA r : r.quantity),
                 total_amount |-> ColumnSum(g, LAMBDA r : r.total_amount),
                 transaction_count |-> RowCount(g)]]

RegionOrder == <<"Midwest", "Northeast", "South", "Southeast", "West">>
CategoryOrder == <<"compact", "offroad", "sedan", "sports", "suv", "truck">>
SegmentOrder == <<"dealer", "fleet", "individual">>
StatusOrder == <<"active", "low", "out_of_stock">>
WarehouseOrder == <<"Chicago DC", "Los Angeles DC">>

\* DataAggregator.aggregate_sales_by_period: pd.Grouper makes one bucket per
\* period from the first to the last one that holds a row, empty ones included
GetSalesTrends(start_date, end_date, period_days) ==
    LET df == ExtractSales(start_date, end_date)
        bucket(r) == (r.sale_date - 1) \div period_days
        used == {bucket(r) : r \in DOMAIN df}
    IN  IF used = {} THEN <<>>
        ELSE LET lo == CHOOSE b \in used : \A c \in used : b <= c
                 hi == CHOOSE b \in used : \A c \in used : c <= b
             IN  [i \in 1..(hi - lo + 1) |->
                    LET g == Where(df, LAMBDA r : bucket(r) = lo + i - 1)
                    IN  [key |-> lo + i - 1,
                         quantity |-> ColumnSum(g, LAMBDA r : r.quantity),
                         total_amount |-> ColumnSum(g, LAMBDA r : r.total_amount),
                         transaction_count |-> RowCount(g)]]

GetRegionalPerformance(start_date, end_date) ==
    GroupRows(ExtractSales(start_date, end_date), RegionOrder, LAMBDA r : r.region)

GetCategoryBreakdown(start_date, end_date) ==
    GroupRows(ExtractSales(start_date, end_date), CategoryOrder, LAMBDA r : r.category)

GetCustomerSegmentAnalysis(start_date, end_date) ==
    GroupRows(ExtractSales(start_date, end_date), SegmentOrder,
              LAMBDA r : r.customer_segment)

RECURSIVE SortByAmountDesc(_)
\* sort_values("total_amount", ascending=False) of the rows of a sequence
SortByAmountDesc(rows) ==
    IF rows = <<>> THEN <<>>
    ELSE LET i == CHOOSE i \in 1..Len(rows) :
                     /\ \A j \in 1..Len(rows) : rows[j].total_amount <= rows[i].total_amount
                     /\ \A j \in 1..(i - 1) : rows[j].total_amount < rows[i].total_amount
         IN  <<rows[i]>> \o
             SortByAmountDesc(SubSeq(rows, 1, i - 1) \o SubSeq(rows, i + 1, Len(rows)))

GetTopSellingVehicles(n, start_date, end_date) ==
    LET df == ExtractSales(start_date, end_date)
        grouped == GroupRows(df, SortedSeq({r.vehicle_id : r \in DOMAIN df}),
                             LAMBDA r : r.vehicle_id)
        sorted == SortByAmountDesc(grouped)
    IN  SubSeq(sorted, 1, IF n < Len(sorted) THEN n ELSE Len(sorted))

(***************************************************************************)
(* InventoryAnalytics                                                      *)
(***************************************************************************)
\* the dictionary get_inventory_summary returns for an empty table: it has
\* no "active_count" and no "total_reserved" key
EmptyInventorySummary ==
    [total_units |-> 0, total_value |-> 0, unique_vehicles |-> 0,
     low_stock_count |-> 0, out_of_stock_count |-> 0]

StatusCount(df, st) == RowCount(Where(df, LAMBDA r : r.status = st))

GetInventorySummary ==
    LET df == inventory
    IN  IF RowCount(df) = 0 THEN EmptyInventorySummary
        ELSE [total_units |-> ColumnSum(df, LAMBDA r : r.quantity_available),
              total_reserved |-> ColumnSum(df, LAMBDA r : r.quantity_reserved),
              total_value |-> ColumnSum(df, LAMBDA r : r.quantity_available * r.msrp),
              unique_vehicles |-> Cardinality({r.vehicle_id : r \in DOMAIN df}),
              low_stock_count |-> StatusCount(df, "low"),
              out_of_stock_count |-> StatusCount(df, "out_of_stock"),
              active_count |-> StatusCount(df, "active")]

\* one row per key: summed quantities and the record count
\* (get_inventory_by_region / _by_category / _by_status, get_warehouse_utilization)
GroupStock(df, key_order, K(_)) ==
    LET present == SelectSeq(key_order, LAMBDA k : \E r \in DOMAIN df : K(r) = k)
    IN  [i \in 1..Len(present) |->
            LET g == Where(df, LAMBDA r : K(r) = present[i])
            IN  [key |-> present[i],
                 quantity_available |-> ColumnSum(g, LAMBDA r : r.quantity_available),
                 quantity_reserved |-> ColumnSum(g, LAMBDA r : r.quantity_reserved),
                 total_value |-> ColumnSum(g, LAMBDA r : r.quantity_available * r.msrp),
                 record_count |-> RowCount(g)]]

GetInventoryByRegion == GroupStock(inventory, RegionOrder, LAMBDA r : r.region)

GetInventoryByCategory == GroupStock(inventory, CategoryOrder, LAMBDA r : r.category)

GetInventoryByStatus == GroupStock(inventory, StatusOrder, LAMBDA r : r.status)

GetWarehouseUtilization ==
    GroupStock(inventory, WarehouseOrder, LAMBDA r : r.warehouse_location)

\* the rows whose status is "low"
GetLowStockAlerts == Where(inventory, LAMBDA r : r.status = "low")

\* the rows whose quantity exceeds threshold_multiplier (a Ratio) times the
\* mean quantity of their category
GetOverstockItems(threshold_multiplier) ==
    LET df == inventory
        cat(c) == Where(df, LAMBDA r : r.category = c)
    IN  Where(df, LAMBDA r :
            r.quantity_available * RowCount(cat(r.category)) * threshold_multiplier.den
              > ColumnSum(cat(r.category), LAMBDA x : x.quantity_available)
                  * threshold_multiplier.num)

(***************************************************************************)
(* KPICalculator                                                           *)
(***************************************************************************)
DefaultKpiDays == 30

\* reading dictionary keys: a missing key raises KeyError
HasKeys(d, keys) == keys \subseteq DOMAIN d

StockAvailabilityRate(inv) ==
    LET stocked == inv.active_count + inv.low_stock_count
        total   == stocked + inv.out_of_stock_count
    IN  IF total > 0 THEN Ratio(stocked * 100, total) ELSE RatioZero

CalculateAllKpis(start_date, end_date) ==
    LET end0   == IF end_date = 0 THEN today ELSE end_date
        start0 == IF start_date = 0 THEN end0 - DefaultKpiDays ELSE start_date
        sal    == GetSalesSummary(start0, end0)
        inv    == GetInventorySummary
        days_in_period == (end0 - start0) + 1
    IN  IF ~HasKeys(inv, {"active_count", "low_stock_count", "out_of_stock_count"})
        THEN Raised("KeyError")
        ELSE Returned(
          [total_revenue |-> sal.total_revenue,
           avg_daily_revenue |->
               IF days_in_period > 0 THEN Ratio(sal.total_revenue, days_in_period)
               ELSE RatioZero,
           avg_transaction_value |-> sal.avg_transaction_value,
           total_units_sold |-> sal.total_units,
           total_transactions |-> sal.total_transactions,
           avg_units_per_transaction |->
               IF sal.total_transactions > 0
               THEN Ratio(sal.total_units, sal.total_transactions) ELSE RatioZero,
           avg_discount_pct |-> sal.avg_discount,
           total_inventory_units |-> inv.total_units,
           total_inventory_value |-> inv.total_value,
           inventory_turnover_rate |->
               IF inv.total_units > 0 THEN Ratio(sal.total_units, inv.total_units)
               ELSE RatioZero,
           low_stock_items |-> inv.low_stock_count,
           out_of_stock_items |-> inv.out_of_stock_count,
           stock_availability_rate |-> StockAvailabilityRate(inv),
           period_start |-> start0,
           period_end |-> end0,
           period_days |-> days_in_period])

\* the guarded percentage change of calculate_period_comparison
KpiChangePct(current, previous) ==
    IF previous > 0 THEN Ratio((current - previous) * 100, previous) ELSE RatioZero

\* the same guard on the two average transaction values (both Ratios)
KpiRatioChangePct(current, previous) ==
    IF RatioPos(previous)
    THEN Ratio((current.num * previous.den - previous.num * current.den) * 100,
               previous.num * current.den)
    ELSE RatioZero

\* variant: the previous window ends on the day the current window starts
ComparisonWindowsSharingADay(current_days) ==
    LET end_date       == today
        current_start  == end_date - (current_days - 1)
        previous_end   == current_start
        previous_start == previous_end - (current_days - 1)
    IN  [current_start |-> current_start, end_date |-> end_date,
         previous_start |-> previous_start, previous_end |-> previous_end]

\* the two windows of calculate_period_comparison
ComparisonWindows(current_days) ==
    LET end_date       == today
        current_start  == end_date - (current_days - 1)
        previous_end   == current_start - 1
        previous_start == previous_end - (current_days - 1)
    IN  [current_start |-> current_start, end_date |-> end_date,
         previous_start |-> previous_start, previous_end |-> previous_end]

CalculatePeriodComparison(current_days) ==
    LET w == ComparisonWindows(current_days)
        current_kpis  == CalculateAllKpis(w.current_start, w.end_date)
        previous_kpis == CalculateAllKpis(w.previous_start, w.previous_end)
    IN  IF current_kpis.status = "raised" THEN current_kpis
        ELSE IF previous_kpis.status = "raised" THEN previous_kpis
        ELSE LET c == current_kpis.value
                 q == previous_kpis.value
             IN  Returned(
                   [current_period |-> c,
                    previous_period |-> q,
                    changes |->
                      [revenue_change_pct |->
                           KpiChangePct(c.total_revenue, q.total_revenue),
                       units_change_pct |->
                           KpiChangePct(c.total_units_sold, q.total_units_sold),
                       avg_transaction_value_change_pct |->
                           KpiRatioChangePct(c.avg_transaction_value,
                                             q.avg_transaction_value)]])

(***************************************************************************)
(* TrendAnalyzer                                                           *)
(***************************************************************************)
MinAnomalyRows == 7

\* df.groupby("sale_date").agg(sum): one row per sale date, in date order
DailySales(df) ==
    LET days == SortedSeq({r.sale_date : r \in DOMAIN df})
    IN  [i \in 1..Len(days) |->
            LET g == Where(df, LAMBDA r : r.sale_date = days[i])
            IN  [sale_date |-> days[i],
                 total_amount |-> ColumnSum(g, LAMBDA r : r.total_amount),
                 quantity |-> ColumnSum(g, LAMBDA r : r.quantity)]]

SeqSum(q, F(_)) == SumFn([i \in 1..Len(q) |-> F(q[i])])

\* |z| > threshold for the day with revenue x, where z = (x - mean) / std, std
\* the sample standard deviation of the n daily revenues (sum s1, sum of
\* squares s2) and threshold a Ratio; with one day, or with equal revenues, z
\* is NaN and the comparison is false.  Multiplied out:
\*   (n x - s1)^2 (n - 1) / n^2 > threshold^2 (n s2 - s1^2) / n
ZScoreExceeds(x, n, s1, s2, threshold) ==
    (n * x - s1) * (n * x - s1) * (n - 1) * threshold.den * threshold.den
        > threshold.num * threshold.num * n * (n * s2 - s1 * s1)

DetectSalesAnomalies(start_date, end_date, threshold) ==
    LET df == ExtractSales(start_date, end_date)
    IN  IF RowCount(df) < MinAnomalyRows THEN <<>>
        ELSE LET daily == DailySales(df)
                 n  == Len(daily)
                 s1 == SeqSum(daily, LAMBDA d : d.total_amount)
                 s2 == SeqSum(daily, LAMBDA d : d.total_amount * d.total_amount)
                 flagged == SelectSeq(daily, LAMBDA d :
                                ZScoreExceeds(d.total_amount, n, s1, s2, threshold))
             IN  [i \in 1..Len(flagged) |->
                    [date |-> flagged[i].sale_date,
                     revenue |-> flagged[i].total_amount,
                     units |-> flagged[i].quantity,
                     type |-> IF flagged[i].total_amount * n > s1 THEN "high"
                              ELSE "low"]]

\* rolling(window, min_periods=1).mean() over the daily revenues
CalculateMovingAverage(start_date, end_date, window) ==
    LET daily == DailySales(ExtractSales(start_date, end_date))
    IN  [i \in 1..Len(daily) |->
            LET lo == IF i - window + 1 > 1 THEN i - window + 1 ELSE 1
            IN  [date |-> daily[i].sale_date,
                 actual_revenue |-> daily[i].total_amount,
                 moving_avg |->
                     Ratio(SumFn([j \in lo..i |-> daily[j].total_amount]), i - lo + 1)]]

\* forecast_simple: days_ahead rows around the mean daily revenue of the last
\* historical_days; the jitter drawn per row lies in [0.9, 1.1], so a row
\* carries the bounds of its forecasted_revenue
ForecastSimple(days_ahead, historical_days) ==
    LET daily == DailySales(ExtractSales(today - historical_days, today))
    IN  IF Len(daily) = 0 THEN <<>>
        ELSE LET total == SeqSum(daily, LAMBDA d : d.total_amount)
             IN  [i \in 1..days_ahead |->
                    [date |-> today + i,
                     forecasted_revenue_min |-> Ratio(total * 9, Len(daily) * 10),
                     forecasted_revenue_max |-> Ratio(total * 11, Len(daily) * 10),
                     confidence |-> "low"]]

\* identify_seasonal_patterns: mean amount per month and per day of week
\* (a month is 30 day numbers here); {} for an empty table
IdentifySeasonalPatterns(start_date, end_date) ==
    LET df == ExtractSales(start_date, end_date)
        month(r) == (((r.sale_date - 1) \div 30) % 12) + 1
        dow(r)   == r.sale_date % 7
        mean(g)  == Ratio(ColumnSum(g, LAMBDA r : r.total_amount), RowCount(g))
    IN  IF RowCount(df) = 0 THEN [empty |-> TRUE]
        ELSE [empty |-> FALSE,
              monthly_pattern |->
                  [m \in {month(r) : r \in DOMAIN df} |->
                      mean(Where(df, LAMBDA r : month(r) = m))],
              day_of_week_pattern |->
                  [d \in {dow(r) : r \in DOMAIN df} |->
                      mean(Where(df, LAMBDA r : dow(r) = d))]]

(***************************************************************************)
(* Calls of the calculators on the stored tables.  A call records the      *)
(* method, its arguments and what it returned or raised; the tables change *)
(* only between calls.                                                     *)
(***************************************************************************)
NoCall == [method |-> "none"]

NoResult == [status |-> "none"]

AnalyticsIdle == a_call = NoCall

Today == 10

MaxKpiSales == 3
MaxKpiStock == 2
MaxPeriodDays == 2

\* the sale rows the seeder may insert around today
KpiSaleKinds ==
    {Sale(Today, 1, 3, 1, "West"), Sale(Today - 1, 2, 5, 2, "Midwest"),
     Sale(Today - 2, 1, 4, 1, "West")}

\* the inventory rows the seeder may insert: active, low and out of stock
KpiStockKinds ==
    {Stock(1, 20, "West"), Stock(2, 5, "Midwest"), Stock(1, 0, "West")}

MaxTrendDays == 7
MaxTrendRows == 8

\* one ordinary sale per day and one large sale
TrendSaleKinds ==
    {Sale(d, 1, 1, 1, "West") : d \in 1..MaxTrendDays}
        \cup {Sale(MaxTrendDays - 1, 1, 9, 2, "Midwest")}

\* DataSeeder: one more sales row
SeedSale(kinds, max_rows) ==
    /\ AnalyticsIdle
    /\ RowCount(sales) < max_rows
    /\ \E r \in kinds : sales' = sales (+) SetToBag({r})
    /\ UNCHANGED <<inventory, insight_history, today, serviceVars, analyticsVars, pipelineVars>>

\* DataSeeder: one more inventory row
SeedStock(kinds, max_rows) ==
    /\ AnalyticsIdle
    /\ RowCount(inventory) < max_rows
    /\ \E r \in kinds : inventory' = inventory (+) SetToBag({r})
    /\ UNCHANGED <<sales, insight_history, today, serviceVars, analyticsVars, pipelineVars>>

SeedSaleKpi == SeedSale(KpiSaleKinds, MaxKpiSales)

SeedStockKpi == SeedStock(KpiStockKinds, MaxKpiStock)

SeedSaleTrend == SeedSale(TrendSaleKinds, MaxTrendRows)

\* a calculator method is called and returns or raises
Call(method, args, result) ==
    /\ AnalyticsIdle
    /\ a_call' = [method |-> method, args |-> args]
    /\ a_result' = result
    /\ UNCHANGED <<storageVars, serviceVars, pipelineVars>>

\* the caller takes the result
AnalyticsReturn ==
    /\ ~AnalyticsIdle
    /\ a_call' = NoCall
    /\ a_result' = NoResult
    /\ UNCHANGED <<storageVars, serviceVars, pipelineVars>>

\* the date windows a caller asks for: (None, None) and windows around today
KpiWindows == {<<0, 0>>, <<Today - 1, Today>>, <<Today - 2, Today - 2>>}

CallGetSalesSummary ==
    \E w \in KpiWindows :
        Call("get_sales_summary", w, Returned(GetSalesSummary(w[1], w[2])))

CallComparePeriods ==
    \E c \in KpiWindows \ {<<0, 0>>}, q \in KpiWindows \ {<<0, 0>>} :
        Call("compare_periods", c \o q, ComparePeriods(c[1], c[2], q[1], q[2]))

CallSalesBreakdowns ==
    \E w \in KpiWindows :
        \/ Call("get_sales_trends", w, Returned(GetSalesTrends(w[1], w[2], 1)))
        \/ Call("get_regional_performance", w,
                Returned(GetRegionalPerformance(w[1], w[2])))
        \/ Call("get_top_selling_vehicles", w,
                Returned(GetTopSellingVehicles(10, w[1], w[2])))
        \/ Call("get_category_breakdown", w, Returned(GetCategoryBreakdown(w[1], w[2])))
        \/ Call("get_customer_segment_analysis", w,
                Returned(GetCustomerSegmentAnalysis(w[1], w[2])))

CallGetInventorySummary ==
    Call("get_inventory_summary", <<>>, Returned(GetInventorySummary))

CallInventoryBreakdowns ==
    \/ Call("get_inventory_by_region", <<>>, Returned(GetInventoryByRegion))
    \/ Call("get_inventory_by_category", <<>>, Returned(GetInventoryByCategory))
    \/ Call("get_inventory_by_status", <<>>, Returned(GetInventoryByStatus))
    \/ Call("get_low_stock_alerts", <<>>, Returned(GetLowStockAlerts))
    \/ Call("get_overstock_items", <<>>, Returned(GetOverstockItems(Ratio(3, 1))))
    \/ Call("get_warehouse_utilization", <<>>, Returned(GetWarehouseUtilization))

CallCalculateAllKpis ==
    \E w \in KpiWindows : Call("calculate_all_kpis", w, CalculateAllKpis(w[1], w[2]))

CallCalculatePeriodComparison ==
    \E n \in 1..MaxPeriodDays :
        Call("calculate_period_comparison", <<n>>, CalculatePeriodComparison(n))

\* the anomaly thresholds a caller passes: the default 2.0, and 0.5
Thresholds == {Ratio(2, 1), Ratio(1, 2)}

\* the windows asked of the trend analyzer: everything, or from day 2 on
TrendWindows == {<<0, 0>>, <<2, 0>>}

CallDetectSalesAnomalies ==
    \E w \in TrendWindows, t \in Thresholds :
        Call("detect_sales_anomalies", <<w[1], w[2], t>>,
             Returned(DetectSalesAnomalies(w[1], w[2], t)))

CallTrendMethods ==
    \E w \in KpiWindows :
        \/ Call("calculate_moving_average", w,
                Returned(CalculateMovingAverage(w[1], w[2], 7)))
        \/ Call("forecast_simple", <<>>, Returned(ForecastSimple(2, 30)))
        \/ Call("identify_seasonal_patterns", w,
                Returned(IdentifySeasonalPatterns(w[1], w[2])))

\* pd.DataFrame([]): no rows and, with no rows to take them from, no columns
EmptyFrame == [columns |-> {}, rows |-> <<>>, date_type |-> "none"]

\* no DataFrame extracted, no snapshot stored, no inventory row created
\* the callers of update_stock, one request each
Writers == {1, 2}

\* no call of update_stock in flight
NoSession == [pc |-> "idle"]

IdlePipeline ==
    /\ frame = EmptyFrame
    /\ snapshots = <<>>
    /\ inventory_rows = <<>>
    /\ sessions = [w \in Writers |-> NoSession]

IdleService ==
    /\ op = "none" /\ pc = "idle" /\ sql_query = <<>> /\ results = -1
    /\ response = NoResponse /\ raised = NoException /\ calls = NoCalls
    /\ qlog = NoQueryLog

InitAnalytics ==
    /\ sales = EmptyBag
    /\ inventory = EmptyBag
    /\ insight_history = <<>>
    /\ today = Today
    /\ IdleService
    /\ a_call = NoCall
    /\ a_result = NoResult
    /\ IdlePipeline

NextKpi ==
    \/ SeedSaleKpi
    \/ SeedStockKpi
    \/ CallGetSalesSummary
    \/ CallComparePeriods
    \/ CallSalesBreakdowns
    \/ CallGetInventorySummary
    \/ CallInventoryBreakdowns
    \/ CallCalculateAllKpis
    \/ CallCalculatePeriodComparison
    \/ CallDetectSalesAnomalies
    \/ CallTrendMethods
    \/ AnalyticsReturn

\* the calculators over small sales and inventory tables
SpecKpi == InitAnalytics /\ [][NextKpi]_vars

NextTrend ==
    \/ SeedSaleTrend
    \/ CallDetectSalesAnomalies
    \/ AnalyticsReturn

\* the anomaly detector over sales tables of up to MaxTrendRows rows
SpecTrend == InitAnalytics /\ [][NextTrend]_vars

(***************************************************************************)
(* InsightsService: the model responses of the analyst persona, the parser *)
(* of a numbered list and the insight history                              *)
(***************************************************************************)
\* "1. Sales Up"
InsightLineOne ==
    <<"1", ".", " ", "S", "a", "l", "e", "s", " ", "U", "p">>

\* "2) stock low"
InsightLineTwo ==
    <<"2", ")", " ", "s", "t", "o", "c", "k", " ", "l", "o", "w">>

\* "  more"
InsightLineMore ==
    <<" ", " ", "m", "o", "r", "e">>

\* "10. ten"
InsightLineTen ==
    <<"1", "0", ".", " ", "t", "e", "n">>

\* the responses: empty, one item, two items, two items with a continuation
\* line, no numbered item, a two-digit number
InsightTexts ==
    {<<>>,
     InsightLineOne,
     JoinWith(<<InsightLineOne, InsightLineTwo>>, <<"\n">>),
     JoinWith(<<InsightLineOne, InsightLineMore, <<>>, InsightLineTwo>>, <<"\n">>),
     InsightLineMore,
     InsightLineTen}

\* "Sales rose": the text of an explanation, an analysis, a report or an answer
AnalysisText ==
    <<"S", "a", "l", "e", "s", " ", "r", "o", "s", "e">>

\* "No significant anomalies detected."
NoAnomaliesText ==
    <<"N", "o", " ", "s", "i", "g", "n", "i", "f", "i", "c", "a", "n", "t", " ", "a",
      "n", "o", "m", "a", "l", "i", "e", "s", " ", "d", "e", "t", "e", "c", "t", "e",
      "d", ".">>

IsDigit(c) == c \in {"0", "1", "2", "3", "4", "5", "6", "7", "8", "9"}

Insight(text, insight_type) == [text |-> text, type |-> insight_type, metadata |-> {}]

RECURSIVE ParseLines(_, _, _, _)
\* the for loop of _parse_insights_response over the remaining lines;
\* current is <<>> for None and <<insight>> otherwise
ParseLines(lines, insights, current, insight_type) ==
    IF lines = <<>> THEN insights \o current
    ELSE LET line == Strip(lines[1])
             rest == Tail(lines)
         IN  IF line = <<>> THEN ParseLines(rest, insights, current, insight_type)
             ELSE IF Len(line) > 2 /\ IsDigit(line[1]) /\ line[2] \in {".", ")"}
             THEN ParseLines(rest, insights \o current,
                             <<Insight(Strip(SubSeq(line, 3, Len(line))), insight_type)>>,
                             insight_type)
             ELSE IF current # <<>>
             THEN ParseLines(rest, insights,
                             <<[current[1] EXCEPT !.text = @ \o <<" ">> \o line]>>,
                             insight_type)
             ELSE ParseLines(rest, insights, current, insight_type)

ParseInsightsResponse(resp, insight_type) ==
    LET insights == ParseLines(SplitLines(resp), <<>>, <<>>, insight_type)
    IN  IF insights = <<>> THEN <<Insight(resp, insight_type)>> ELSE insights

InsightRecord(text, insight_type, metadata) ==
    [insight_text |-> text, insight_type |-> insight_type, insight_metadata |-> metadata]

\* _store_insight: add and commit; a failure is logged, rolled back and not
\* raised, and the record is not stored
StoreInsight(history, text, insight_type, metadata, commit_ok) ==
    IF commit_ok THEN Append(history, InsightRecord(text, insight_type, metadata))
    ELSE history

RECURSIVE StoreAll(_, _, _, _)
\* `for insight in insights: self._store_insight(...)`
StoreAll(history, insights, insight_type, commit_ok) ==
    IF insights = <<>> THEN history
    ELSE StoreAll(StoreInsight(history, insights[1].text, insight_type,
                               insights[1].metadata, commit_ok[1]),
                  Tail(insights), insight_type, Tail(commit_ok))

(***************************************************************************)
(* RAGService.retrieve_similar_insights                                    *)
(***************************************************************************)
LowerChar(c) ==
    IF \E k \in DOMAIN UpperMap : UpperMap[k] = c
    THEN CHOOSE k \in DOMAIN UpperMap : UpperMap[k] = c
    ELSE c

Lower(s) == [i \in 1..Len(s) |-> LowerChar(s[i])]

RECURSIVE SplitWords(_)
\* str.split(): the maximal runs of non-space characters
SplitWords(s) ==
    LET t  == Strip(s)
        sp == {i \in 1..Len(t) : IsSpace(t[i])}
    IN  IF t = <<>> THEN <<>>
        ELSE IF sp = {} THEN <<t>>
        ELSE LET k == CHOOSE i \in sp : \A j \in sp : i <= j
             IN  <<SubSeq(t, 1, k - 1)>> \o SplitWords(SubSeq(t, k + 1, Len(t)))

\* sum(1 for keyword in keywords if keyword in text_lower)
KeywordScore(keywords, text) ==
    Cardinality({i \in 1..Len(keywords) : Contains(Lower(text), keywords[i])})

\* variant: the scored records are left in the order they were read
LeftInReadOrder(rows) == rows

\* list.sort(key=score, reverse=True): rows of equal score keep their order.
\* A row comes after the rows of a higher score and after the earlier rows
\* of its own score.
SortByScoreDesc(rows) ==
    LET before == [i \in 1..Len(rows) |->
                      Cardinality({j \in 1..Len(rows) :
                          \/ rows[j].score > rows[i].score
                          \/ rows[j].score = rows[i].score /\ j < i})]
    IN  [k \in 1..Len(rows) |->
            rows[CHOOSE i \in 1..Len(rows) : before[i] = k - 1]]

RecentLimit == 100

\* the try block of retrieve_similar_insights (insight_type None: no filter)
RetrieveSimilarInsights(history, query, limit, insight_type) ==
    LET keywords == SplitWords(Lower(query))
        newest   == [i \in 1..Len(history) |-> Len(history) + 1 - i]
        filtered == SelectSeq(newest, LAMBDA id :
                        insight_type = None \/ history[id].insight_type = insight_type)
        recent   == SubSeq(filtered, 1,
                           IF Len(filtered) > RecentLimit THEN RecentLimit
                           ELSE Len(filtered))
        rows     == [i \in 1..Len(recent) |->
                        [id |-> recent[i],
                         text |-> history[recent[i]].insight_text,
                         type |-> history[recent[i]].insight_type,
                         score |-> KeywordScore(keywords, history[recent[i]].insight_text)]]
        scored   == SortByScoreDesc(SelectSeq(rows, LAMBDA r : r.score > 0))
    IN  SubSeq(scored, 1, IF Len(scored) > limit THEN limit ELSE Len(scored))

(***************************************************************************)
(* The operations of InsightsService, ReportService and RAGService.  Each  *)
(* is one call of the gateway at most, so a step is a whole invocation:    *)
(* what it reads, whether the gateway or storage fails, what it stores and *)
(* what it returns or raises.                                              *)
(***************************************************************************)
\* an except clause that would swallow the exception (sensitivity variant)
Swallowed(exc_type, origin) == NoException

\* the exception that leaves an operation through a `raise`
Escapes(exc_type, origin) == [type |-> exc_type, origin |-> origin]

\* the except clauses of generate_sales_insights / generate_inventory_insights
InsightsRaises(exc_type) ==
    IF exc_type = "LLMServiceError" THEN "LLMServiceError" ELSE "Exception"

\* the except clauses of generate_executive_report / generate_detailed_report
ReportRaises(exc_type) ==
    IF exc_type = "LLMServiceError" THEN "LLMServiceError" ELSE "Exception"

GatewayCalled == Bump(NoCalls, "llm")

\* an invocation from its first statement to its return or raise; log holds
\* the failures the operation met and handled itself
FinishLogged(name, resp, exc, c, log) ==
    /\ Idle
    /\ op' = name
    /\ pc' = "done"
    /\ sql_query' = <<>>
    /\ results' = -1
    /\ response' = resp
    /\ raised' = exc
    /\ calls' = c
    /\ qlog' = log

Finish(name, resp, exc, c) == FinishLogged(name, resp, exc, c, NoQueryLog)

\* a read of storage failed inside the operation
StorageFailed == [NoQueryLog EXCEPT !.exc_origin = "storage"]

\* the caller takes what the operation returned or raised
Return ==
    /\ pc = "done"
    /\ op' = "none"
    /\ pc' = "idle"
    /\ sql_query' = <<>>
    /\ results' = -1
    /\ response' = NoResponse
    /\ raised' = NoException
    /\ calls' = NoCalls
    /\ qlog' = NoQueryLog
    /\ UNCHANGED <<storageVars, analyticsVars, pipelineVars>>

\* variant: the record is written before the gateway call is made
GatewayFailsAfterStoring(name, exc_type) ==
    /\ Finish(name, NoResponse, Escapes(exc_type, "llm"), GatewayCalled)
    /\ insight_history' = StoreInsight(insight_history, AnalysisText, "pending", {}, TRUE)

\* structured_completion raises: the operation raises before it reaches the
\* statements that store
GatewayFails(name, exc_type) ==
    /\ Finish(name, NoResponse, Escapes(exc_type, "llm"), GatewayCalled)
    /\ UNCHANGED insight_history

MaxHistory == 1

\* the history is kept small: the storing operations run while it is short
HistoryOpen == Len(insight_history) < MaxHistory

\* the (start_date, end_date) a caller passes: (None, None) and today only
ServiceWindows == {<<0, 0>>, <<Today, Today>>}

GenerateInsights(name, insight_type, stored_type) ==
    /\ Idle
    /\ HistoryOpen
    /\ \/ \* a read of the analytics fails
          /\ Finish(name, NoResponse,
                    Escapes(InsightsRaises("SQLAlchemyError"), "storage"), NoCalls)
          /\ UNCHANGED insight_history
       \/ \* the gateway call fails
          GatewayFails(name, InsightsRaises(ChatCompletionRaises("APIError")))
       \/ \* the completion has no content: response.split raises AttributeError
          /\ Finish(name, NoResponse,
                    Escapes(InsightsRaises("AttributeError"), "data"), GatewayCalled)
          /\ UNCHANGED insight_history
       \/ \E text \in InsightTexts :
            LET insights == ParseInsightsResponse(text, insight_type)
            IN  \E commit_ok \in [1..Len(insights) -> BOOLEAN] :
                  /\ insight_history' =
                         StoreAll(insight_history, insights, stored_type, commit_ok)
                  /\ Finish(name, [kind |-> "insights", insights |-> insights],
                            NoException, GatewayCalled)
    /\ UNCHANGED <<sales, inventory, today, analyticsVars, pipelineVars>>

GenerateSalesInsights ==
    GenerateInsights("generate_sales_insights", "sales", "sales_trend")

GenerateInventoryInsights ==
    GenerateInsights("generate_inventory_insights", "inventory", "inventory_status")

\* the default threshold of detect_sales_anomalies
DefaultThreshold == Ratio(2, 1)

AnalyzeAnomalies ==
    /\ Idle
    /\ HistoryOpen
    /\ \E w \in ServiceWindows :
         LET anomalies == DetectSalesAnomalies(w[1], w[2], DefaultThreshold)
         IN  \/ \* extract_sales fails: the bare `raise`
                /\ Finish("analyze_anomalies", NoResponse,
                          Escapes("SQLAlchemyError", "storage"), NoCalls)
                /\ UNCHANGED insight_history
             \/ /\ anomalies = <<>>
                /\ Finish("analyze_anomalies",
                          [kind |-> "anomalies", anomalies |-> <<>>,
                           explanation |-> NoAnomaliesText],
                          NoException, NoCalls)
                /\ UNCHANGED insight_history
             \/ /\ anomalies # <<>>
                /\ \/ GatewayFails("analyze_anomalies", ChatCompletionRaises("APIError"))
                   \/ \E commit_ok \in BOOLEAN :
                        /\ insight_history' =
                               StoreInsight(insight_history, AnalysisText, "anomaly",
                                            {<<"anomaly_count", Len(anomalies)>>},
                                            commit_ok)
                        /\ Finish("analyze_anomalies",
                                  [kind |-> "anomalies", anomalies |-> anomalies,
                                   explanation |-> AnalysisText],
                                  NoException, GatewayCalled)
    /\ UNCHANGED <<sales, inventory, today, analyticsVars, pipelineVars>>

AnalyzeTrends ==
    /\ Idle
    /\ HistoryOpen
    /\ \E w \in ServiceWindows :
         LET trends     == GetSalesTrends(w[1], w[2], 7)
             moving_avg == CalculateMovingAverage(w[1], w[2], 7)
         IN  \/ /\ Finish("analyze_trends", NoResponse,
                          Escapes("SQLAlchemyError", "storage"), NoCalls)
                /\ UNCHANGED insight_history
             \/ \* json.dumps(trends[:10]): a trend row holds a pandas Timestamp
                /\ trends # <<>>
                /\ Finish("analyze_trends", NoResponse,
                          Escapes("TypeError", "data"), NoCalls)
                /\ UNCHANGED insight_history
             \/ /\ trends = <<>>
                /\ \/ GatewayFails("analyze_trends", ChatCompletionRaises("APIError"))
                   \/ \E commit_ok \in BOOLEAN :
                        /\ insight_history' =
                               StoreInsight(insight_history, AnalysisText,
                                            "trend_analysis", {}, commit_ok)
                        /\ Finish("analyze_trends",
                                  [kind |-> "trends", trends |-> trends,
                                   moving_average |-> moving_avg,
                                   analysis |-> AnalysisText],
                                  NoException, GatewayCalled)
    /\ UNCHANGED <<sales, inventory, today, analyticsVars, pipelineVars>>

\* generate_executive_report / generate_detailed_report: the KPIs, the
\* gateway call and the report
GenerateReport(name, report_type) ==
    /\ Idle
    /\ \E w \in ServiceWindows :
         LET kpis == CalculateAllKpis(w[1], w[2])
         IN  \/ Finish(name, NoResponse,
                       Escapes(ReportRaises("SQLAlchemyError"), "storage"), NoCalls)
             \/ /\ kpis.status = "raised"
                /\ Finish(name, NoResponse,
                          Escapes(ReportRaises(kpis.exc), "data"), NoCalls)
             \/ /\ kpis.status = "ok"
                /\ \/ Finish(name, NoResponse,
                             Escapes(ReportRaises(ChatCompletionRaises("APIError")), "llm"),
                             GatewayCalled)
                   \/ Finish(name,
                             [kind |-> "report", report_type |-> report_type,
                              content |-> AnalysisText, kpis |-> kpis.value],
                             NoException, GatewayCalled)
    /\ UNCHANGED <<storageVars, analyticsVars, pipelineVars>>

GenerateExecutiveReport == GenerateReport("generate_executive_report", "executive")

GenerateDetailedReport == GenerateReport("generate_detailed_report", "detailed")

\* the vehicles table
VehicleIds == {1, 2}

\* variant: the report prompt is sent before the vehicle is looked up
GenerateProductReportPrompted ==
    /\ Idle
    /\ \E vehicle_id \in {1, 3} :
         IF vehicle_id \in VehicleIds
         THEN Finish("generate_product_report",
                     [kind |-> "report", report_type |-> "product",
                      content |-> AnalysisText, vehicle_id |-> vehicle_id],
                     NoException, GatewayCalled)
         ELSE Finish("generate_product_report", NoResponse,
                     Escapes("ValueError", "validation"), GatewayCalled)
    /\ UNCHANGED <<storageVars, analyticsVars, pipelineVars>>

GenerateProductReport ==
    /\ Idle
    /\ \E vehicle_id \in {1, 3} :
         \/ Finish("generate_product_report", NoResponse,
                   Escapes("SQLAlchemyError", "storage"), NoCalls)
         \/ \* `if not vehicle: raise ValueError`
            /\ vehicle_id \notin VehicleIds
            /\ Finish("generate_product_report", NoResponse,
                      Escapes("ValueError", "validation"), NoCalls)
         \/ /\ vehicle_id \in VehicleIds
            /\ \/ Finish("generate_product_report", NoResponse,
                         Escapes(ChatCompletionRaises("APIError"), "llm"),
                         GatewayCalled)
               \/ Finish("generate_product_report",
                         [kind |-> "report", report_type |-> "product",
                          content |-> AnalysisText, vehicle_id |-> vehicle_id],
                         NoException, GatewayCalled)
    /\ UNCHANGED <<storageVars, analyticsVars, pipelineVars>>

\* "Up SALES"
QueryUp ==
    <<"U", "p", " ", "S", "A", "L", "E", "S">>

\* "low"
QueryLow ==
    <<"l", "o", "w">>

\* "margin"
QueryNone ==
    <<"m", "a", "r", "g", "i", "n">>

RagQueries == {QueryUp, QueryLow, QueryNone}

\* retrieve_similar_insights as its caller sees it: the scored records, or
\* [] when the read fails (the except clause logs the error and returns [])
Retrieved(read_ok, similar) == IF read_ok THEN similar ELSE <<>>

\* retrieve_similar_insights
RetrieveSimilar ==
    /\ Idle
    /\ \E query \in RagQueries, limit \in {1, 5}, insight_type \in {None, "sales_trend"},
          read_ok \in BOOLEAN :
         FinishLogged("retrieve_similar_insights",
                      [kind |-> "similar",
                       items |-> Retrieved(read_ok,
                                           RetrieveSimilarInsights(insight_history, query,
                                                                   limit, insight_type))],
                      NoException, NoCalls,
                      IF read_ok THEN NoQueryLog ELSE StorageFailed)
    /\ UNCHANGED <<storageVars, analyticsVars, pipelineVars>>

\* answer_with_context (context_limit 3): retrieval, the gateway call and
\* the answer
AnswerWithContext ==
    /\ Idle
    /\ \E question \in RagQueries, read_ok \in BOOLEAN :
         LET similar == Retrieved(read_ok,
                                  RetrieveSimilarInsights(insight_history, question, 3,
                                                          None))
             log == IF read_ok THEN NoQueryLog ELSE StorageFailed
         IN  \/ FinishLogged("answer_with_context", NoResponse,
                             Escapes(ChatCompletionRaises("APIError"), "llm"),
                             GatewayCalled, log)
             \/ FinishLogged("answer_with_context",
                             [kind |-> "answer", answer |-> AnalysisText,
                              context_used |-> similar, context_count |-> Len(similar)],
                             NoException, GatewayCalled, log)
    /\ UNCHANGED <<storageVars, analyticsVars, pipelineVars>>

(***************************************************************************)
(* The services over a stored database                                     *)
(***************************************************************************)
\* seven sales on seven days, the last one ten times the others
AnomalySales ==
    SetToBag({Sale(d, 1, 1, 1, "West") : d \in 1..6})
        (+) SetToBag({Sale(7, 1, 10, 2, "Midwest")})

SmallStock == SetToBag({Stock(1, 20, "West"), Stock(2, 0, "Midwest")})

\* an empty database, or one with sales and inventory
Init ==
    /\ \E db \in {<<EmptyBag, EmptyBag>>, <<AnomalySales, SmallStock>>} :
         /\ sales = db[1]
         /\ inventory = db[2]
    /\ insight_history = <<>>
    /\ today = Today
    /\ IdleService
    /\ a_call = NoCall
    /\ a_result = NoResult
    /\ IdlePipeline

Next ==
    \/ ProcessQuery
    \/ GenerateSql
    \/ ValidateSql
    \/ ExecuteQuery
    \/ FormatResults
    \/ GenerateExplanation
    \/ GenerateSalesInsights
    \/ GenerateInventoryInsights
    \/ AnalyzeAnomalies
    \/ AnalyzeTrends
    \/ GenerateExecutiveReport
    \/ GenerateDetailedReport
    \/ GenerateProductReport
    \/ RetrieveSimilar
    \/ AnswerWithContext
    \/ Return

Spec == Init /\ [][Next]_vars

(***************************************************************************)
(* The ETL pipeline: DataExtractor, DataCleaner, DataAggregator            *)
(*                                                                         *)
(* A DataFrame is a record of its column names, its rows in order and the  *)
(* type of the values of its sale_date column ("date" as extracted,        *)
(* "Timestamp" after pd.to_datetime, "none" without such a column).  A row *)
(* holds its primary key under key, whatever the column is called.         *)
(***************************************************************************)
SalesColumns ==
    {"id", "vehicle_id", "sale_date", "quantity", "unit_price", "total_amount",
     "customer_segment", "region", "salesperson_id", "discount_applied"}

SalesInfoColumns ==
    {"sale_id", "vehicle_id", "sale_date", "quantity", "unit_price", "total_amount",
     "customer_segment", "region", "discount_applied", "make", "model", "year",
     "category", "msrp"}

InventoryInfoColumns ==
    {"inventory_id", "vehicle_id", "warehouse_location", "region",
     "quantity_available", "quantity_reserved", "status", "make", "model", "year",
     "category", "msrp"}

\* pd.DataFrame(data): the columns are the keys of the row dictionaries
DataFrame(data, columns, date_type) ==
    IF data = <<>> THEN EmptyFrame
    ELSE [columns |-> columns, rows |-> data, date_type |-> date_type]

\* DataExtractor.extract_sales
ExtractSalesFrame(table) == DataFrame(table, SalesColumns, "date")

\* DataExtractor.extract_sales_with_vehicle_info
ExtractSalesWithVehicleInfo(table) == DataFrame(table, SalesInfoColumns, "date")

\* DataExtractor.extract_inventory_with_vehicle_info
ExtractInventoryWithVehicleInfo(table) ==
    DataFrame(table, InventoryInfoColumns, "none")

\* df.empty
IsEmpty(df) == df.rows = <<>> \/ df.columns = {}

RECURSIVE DropDuplicates(_)
\* df.drop_duplicates(): the first of equal rows is kept
DropDuplicates(rows) ==
    IF rows = <<>> THEN <<>>
    ELSE LET front == DropDuplicates(SubSeq(rows, 1, Len(rows) - 1))
             last == rows[Len(rows)]
         IN  IF \E i \in 1..Len(front) : front[i] = last THEN front
             ELSE Append(front, last)

\* DataCleaner.remove_duplicates
RemoveDuplicates(df) == [df EXCEPT !.rows = DropDuplicates(@)]

\* DataCleaner.validate_positive_values: a copy without the rows that have a
\* non-positive value in one of the named columns the frame has
ValidatePositiveValues(df, columns) ==
    [df EXCEPT !.rows =
        SelectSeq(@, LAMBDA r : \A c \in columns \cap df.columns : r[c] > 0)]

RECURSIVE SeqToBag(_)
SeqToBag(rows) ==
    IF rows = <<>> THEN EmptyBag
    ELSE SetToBag({Head(rows)}) (+) SeqToBag(Tail(rows))

\* df[date_column] = pd.to_datetime(df[date_column]), on the caller's frame
ToDatetime(df) == [df EXCEPT !.date_type = "Timestamp"]

\* DataAggregator.aggregate_sales_by_period(df, "D"): the caller's frame after
\* the call
FrameAfterAggregateSalesByPeriod(df) ==
    IF "sale_date" \in df.columns THEN ToDatetime(df) ELSE df

\* DataAggregator.aggregate_sales_by_period(df, "D"): one row per day from the
\* first to the last day that holds a sale
AggregateSalesByPeriod(df) ==
    IF "sale_date" \notin df.columns THEN Raised("KeyError")
    ELSE IF ~({"quantity", "total_amount", "id"} \subseteq df.columns)
    THEN Raised("KeyError")
    ELSE LET rows == SeqToBag(df.rows)
             used == {r.sale_date : r \in DOMAIN rows}
         IN  IF used = {} THEN Returned(<<>>)
             ELSE LET lo == CHOOSE b \in used : \A c \in used : b <= c
                      hi == CHOOSE b \in used : \A c \in used : c <= b
                  IN  Returned(
                        [i \in 1..(hi - lo + 1) |->
                            LET g == Where(rows, LAMBDA r : r.sale_date = lo + i - 1)
                            IN  [sale_date |-> lo + i - 1,
                                 quantity |-> ColumnSum(g, LAMBDA r : r.quantity),
                                 total_amount |->
                                     ColumnSum(g, LAMBDA r : r.total_amount),
                                 transaction_count |-> RowCount(g),
                                 avg_transaction_value |->
                                     Ratio(ColumnSum(g, LAMBDA r : r.total_amount),
                                           RowCount(g))]])

\* DataAggregator.aggregate_sales_by_region
AggregateSalesByRegion(df) ==
    IF ~({"region", "quantity", "total_amount", "id", "discount_applied"}
            \subseteq df.columns)
    THEN Raised("KeyError")
    ELSE Returned(GroupRows(SeqToBag(df.rows), RegionOrder, LAMBDA r : r.region))

\* DataAggregator.aggregate_sales_by_category
AggregateSalesByCategory(df) ==
    IF "category" \notin df.columns THEN Returned(<<>>)
    ELSE IF ~({"quantity", "total_amount", "sale_id"} \subseteq df.columns)
    THEN Raised("KeyError")
    ELSE Returned(GroupRows(SeqToBag(df.rows), CategoryOrder, LAMBDA r : r.category))

\* DataAggregator.aggregate_sales_by_customer_segment
AggregateSalesByCustomerSegment(df) ==
    IF ~({"customer_segment", "quantity", "total_amount", "id", "discount_applied"}
            \subseteq df.columns)
    THEN Raised("KeyError")
    ELSE Returned(GroupRows(SeqToBag(df.rows), SegmentOrder,
                            LAMBDA r : r.customer_segment))

\* df.head(n): the first n rows, or all but the last -n when n is negative
HeadRows(rows, n) ==
    LET k == IF n >= 0 THEN n ELSE Len(rows) + n
    IN  SubSeq(rows, 1, IF k < 0 THEN 0 ELSE IF k < Len(rows) THEN k ELSE Len(rows))

\* variant: the groups are truncated without sorting them by amount
AggregateTopNVehiclesUnsorted(df, n) ==
    IF "vehicle_id" \notin df.columns THEN Returned(<<>>)
    ELSE IF ~({"make", "model", "category", "quantity", "total_amount"}
                \subseteq df.columns)
    THEN Raised("KeyError")
    ELSE LET rows == SeqToBag(df.rows)
         IN  Returned(HeadRows(GroupRows(rows,
                                         SortedSeq({r.vehicle_id : r \in DOMAIN rows}),
                                         LAMBDA r : r.vehicle_id), n))

\* DataAggregator.aggregate_top_n_vehicles: make, model and category follow
\* from the vehicle, so the groups are the vehicles
AggregateTopNVehicles(df, n) ==
    IF "vehicle_id" \notin df.columns THEN Returned(<<>>)
    ELSE IF ~({"make", "model", "category", "quantity", "total_amount"}
                \subseteq df.columns)
    THEN Raised("KeyError")
    ELSE LET rows == SeqToBag(df.rows)
             grouped == GroupRows(rows, SortedSeq({r.vehicle_id : r \in DOMAIN rows}),
                                  LAMBDA r : r.vehicle_id)
         IN  Returned(HeadRows(SortByAmountDesc(grouped), n))

\* DataAggregator.aggregate_inventory_by_status
AggregateInventoryByStatus(df) ==
    IF ~({"status", "inventory_id", "quantity_available", "quantity_reserved"}
            \subseteq df.columns)
    THEN Raised("KeyError")
    ELSE Returned(GroupStock(SeqToBag(df.rows), StatusOrder, LAMBDA r : r.status))

(***************************************************************************)
(* DataLoader and PipelineManager                                          *)
(***************************************************************************)
\* an AnalyticsSnapshot row
AnalyticsSnapshot(metric_type, metric_data) ==
    [metric_type |-> metric_type, metric_data |-> metric_data]

\* variant: the snapshot whose commit failed stays in the table
LoadAllKeepingFailed(loads, fail_at, done) ==
    IF fail_at = 0 \/ fail_at > Len(loads) THEN [raised |-> FALSE, stored |-> loads]
    ELSE [raised |-> TRUE, stored |-> SubSeq(loads, 1, fail_at)]

RECURSIVE LoadAll(_, _, _)
\* DataLoader.load_dataframe_to_analytics for each of the loads in turn: the
\* commit of load number fail_at fails, which rolls that snapshot back and
\* raises (fail_at = 0: no commit fails)
LoadAll(loads, fail_at, done) ==
    IF done = Len(loads) THEN [raised |-> FALSE, stored |-> loads]
    ELSE IF fail_at = done + 1
    THEN [raised |-> TRUE, stored |-> SubSeq(loads, 1, done)]
    ELSE LoadAll(loads, fail_at, done + 1)

NoData == [status |-> "no_data", records |-> 0]

\* what a pipeline run returned or raised, and the snapshots it persisted
PipelineRun(result, stored) == [result |-> result, stored |-> stored]

NoDataRun == PipelineRun(Returned(NoData), <<>>)

\* variant: the run goes on to clean and aggregate an empty extraction
EmptyExtractionAggregated == PipelineRun(Raised("KeyError"), <<>>)

\* if sales_df.empty: return {"status": "no_data", "records": 0}
NoDataReturn == NoDataRun

\* PipelineManager.run_sales_analytics_pipeline over the sales rows of the
\* window (db_ok: the extraction query succeeds)
RunSalesPipeline(table, db_ok, fail_at) ==
    IF ~db_ok THEN PipelineRun(Raised("SQLAlchemyError"), <<>>)
    ELSE
    LET extracted == ExtractSalesWithVehicleInfo(table)
    IN  IF IsEmpty(extracted) THEN NoDataReturn
        ELSE
        LET sales_df == ValidatePositiveValues(RemoveDuplicates(extracted),
                                               {"total_amount", "quantity"})
            daily_sales == AggregateSalesByPeriod(sales_df)
            aggregated == FrameAfterAggregateSalesByPeriod(sales_df)
            sales_by_region == AggregateSalesByRegion(aggregated)
            sales_by_category == AggregateSalesByCategory(aggregated)
            sales_by_segment == AggregateSalesByCustomerSegment(aggregated)
            top_vehicles == AggregateTopNVehicles(aggregated, 10)
            steps == <<daily_sales, sales_by_region, sales_by_category,
                       sales_by_segment, top_vehicles>>
            names == <<"daily_sales", "sales_by_region", "sales_by_category",
                       "sales_by_segment", "top_vehicles">>
        IN  IF \E i \in 1..5 : steps[i].status = "raised"
            THEN LET first == CHOOSE i \in 1..5 :
                                /\ steps[i].status = "raised"
                                /\ \A j \in 1..(i - 1) : steps[j].status = "ok"
                 IN  PipelineRun(Raised(steps[first].exc), <<>>)
            ELSE LET loaded ==
                         LoadAll([i \in 1..5 |->
                                     AnalyticsSnapshot(names[i], steps[i].value)],
                                 fail_at, 0)
                 IN  IF loaded.raised
                     THEN PipelineRun(Raised("SQLAlchemyError"), loaded.stored)
                     ELSE PipelineRun(
                            Returned([status |-> "success",
                                      records_processed |-> Len(sales_df.rows),
                                      snapshots_created |-> 5]),
                            loaded.stored)

\* the summary dictionary of the inventory pipeline
InventorySummary(df) ==
    LET rows == SeqToBag(df.rows)
    IN  [total_inventory_value |->
             ColumnSum(rows, LAMBDA r : r.quantity_available * r.msrp),
         total_units |-> ColumnSum(rows, LAMBDA r : r.quantity_available),
         low_stock_count |-> RowCount(Where(rows, LAMBDA r : r.status = "low")),
         out_of_stock_count |->
             RowCount(Where(rows, LAMBDA r : r.status = "out_of_stock")),
         unique_vehicles |-> Cardinality({r.vehicle_id : r \in DOMAIN rows})]

\* PipelineManager.run_inventory_analytics_pipeline
RunInventoryPipeline(table, db_ok, fail_at) ==
    IF ~db_ok THEN PipelineRun(Raised("SQLAlchemyError"), <<>>)
    ELSE
    LET extracted == ExtractInventoryWithVehicleInfo(table)
    IN  IF IsEmpty(extracted) THEN NoDataReturn
        ELSE
        LET inventory_df == RemoveDuplicates(extracted)
            inventory_by_status == AggregateInventoryByStatus(inventory_df)
        IN  IF inventory_by_status.status = "raised"
            THEN PipelineRun(inventory_by_status, <<>>)
            ELSE LET loaded ==
                         LoadAll(<<AnalyticsSnapshot("inventory_by_status",
                                                     inventory_by_status.value),
                                   AnalyticsSnapshot("inventory_summary",
                                                     InventorySummary(inventory_df))>>,
                                 fail_at, 0)
                 IN  IF loaded.raised
                     THEN PipelineRun(Raised("SQLAlchemyError"), loaded.stored)
                     ELSE PipelineRun(
                            Returned([status |-> "success",
                                      records_processed |-> Len(inventory_df.rows),
                                      snapshots_created |-> 2]),
                            loaded.stored)

\* PipelineManager.run_full_pipeline: the sales run, then the inventory run;
\* an error of either is re-raised
RunFull(sales_run, inventory_run) ==
    IF sales_run.result.status = "raised" THEN sales_run
    ELSE IF inventory_run.result.status = "raised"
    THEN PipelineRun(inventory_run.result, sales_run.stored \o inventory_run.stored)
    ELSE PipelineRun(Returned([status |-> "success",
                               sales |-> sales_run.result.value,
                               inventory |-> inventory_run.result.value]),
                     sales_run.stored \o inventory_run.stored)

(***************************************************************************)
(* The pipeline specification: a caller extracts a frame, cleans it, calls *)
(* the aggregations on it, and runs the pipelines over small tables.       *)
(***************************************************************************)
\* a sales row with its primary key
SaleRow(id, d, q, amt, v, reg) == [key |-> id] @@ Sale(d, q, amt, v, reg)

\* an inventory row with its primary key
StockRow(id, v, qty, reg) == [key |-> id] @@ Stock(v, qty, reg)

\* the sales of a window: none; three vehicles with totals 500, 300 and 800;
\* two vehicles with equal totals and a row without quantity or amount; only
\* a row without quantity or amount
SalesTables ==
    {<<>>,
     <<SaleRow(1, 1, 1, 200, 1, "West"), SaleRow(2, 1, 1, 300, 2, "Midwest"),
       SaleRow(3, 3, 2, 800, 3, "West"), SaleRow(4, 3, 1, 300, 1, "West")>>,
     <<SaleRow(1, 2, 1, 300, 2, "West"), SaleRow(2, 2, 0, 0, 3, "South"),
       SaleRow(3, 2, 1, 300, 1, "West")>>,
     <<SaleRow(1, 1, 0, 0, 1, "West")>>}

InventoryTables ==
    {<<>>,
     <<StockRow(1, 1, 20, "West"), StockRow(2, 2, 0, "Midwest"),
       StockRow(3, 1, 5, "West")>>}

\* the largest n asked of aggregate_top_n_vehicles
MaxTopN == 3

\* the snapshots the table may hold before another pipeline run starts
MaxSnapshots == 2

AggregatorMethods ==
    {"aggregate_sales_by_period", "aggregate_sales_by_region",
     "aggregate_sales_by_category", "aggregate_sales_by_customer_segment",
     "aggregate_top_n_vehicles", "aggregate_inventory_by_status"}

\* what an aggregation returns or raises for a frame
Aggregate(method, df, n) ==
    CASE method = "aggregate_sales_by_period" -> AggregateSalesByPeriod(df)
      [] method = "aggregate_sales_by_region" -> AggregateSalesByRegion(df)
      [] method = "aggregate_sales_by_category" -> AggregateSalesByCategory(df)
      [] method = "aggregate_sales_by_customer_segment" ->
             AggregateSalesByCustomerSegment(df)
      [] method = "aggregate_top_n_vehicles" -> AggregateTopNVehicles(df, n)
      [] method = "aggregate_inventory_by_status" -> AggregateInventoryByStatus(df)

\* the caller's frame after an aggregation
FrameAfter(method, df) ==
    IF method = "aggregate_sales_by_period"
    THEN FrameAfterAggregateSalesByPeriod(df) ELSE df

\* the caller extracts a frame
ExtractFrame ==
    /\ AnalyticsIdle
    /\ \/ \E table \in SalesTables :
            \/ frame' = ExtractSalesFrame(table)
            \/ frame' = ExtractSalesWithVehicleInfo(table)
       \/ \E table \in InventoryTables :
            frame' = ExtractInventoryWithVehicleInfo(table)
    /\ UNCHANGED <<storageVars, serviceVars, analyticsVars, snapshots, inventory_rows, sessions>>

\* the caller cleans its frame as the pipeline does
CleanFrame ==
    /\ AnalyticsIdle
    /\ frame' = ValidatePositiveValues(RemoveDuplicates(frame),
                                       {"total_amount", "quantity"})
    /\ UNCHANGED <<storageVars, serviceVars, analyticsVars, snapshots, inventory_rows, sessions>>

\* the caller calls an aggregation on its frame
CallAggregate ==
    /\ AnalyticsIdle
    /\ \E method \in AggregatorMethods, n \in 0..MaxTopN :
        /\ method # "aggregate_top_n_vehicles" => n = 0
        /\ a_call' = [method |-> method, args |-> [df |-> frame, n |-> n]]
        /\ a_result' = Aggregate(method, frame, n)
        /\ frame' = FrameAfter(method, frame)
    /\ UNCHANGED <<storageVars, serviceVars, snapshots, inventory_rows, sessions>>

\* a pipeline run: its result goes to the caller, its snapshots to storage
\* (env: whether the extraction query succeeds and which commit fails)
Run(method, table, env, run) ==
    /\ AnalyticsIdle
    /\ Len(snapshots) < MaxSnapshots
    /\ a_call' = [method |-> method, args |-> table, env |-> env]
    /\ a_result' = run.result
    /\ snapshots' = snapshots \o run.stored
    /\ UNCHANGED <<storageVars, serviceVars, frame, inventory_rows, sessions>>

Env(db_ok, fail_at) == [db_ok |-> db_ok, fail_at |-> fail_at]

RunSalesAnalyticsPipeline ==
    \E table \in SalesTables, db_ok \in BOOLEAN, fail_at \in 0..5 :
        Run("run_sales_analytics_pipeline", [sales |-> table], Env(db_ok, fail_at),
            RunSalesPipeline(table, db_ok, fail_at))

RunInventoryAnalyticsPipeline ==
    \E table \in InventoryTables, db_ok \in BOOLEAN, fail_at \in 0..2 :
        Run("run_inventory_analytics_pipeline", [inventory |-> table],
            Env(db_ok, fail_at), RunInventoryPipeline(table, db_ok, fail_at))

RunFullPipeline ==
    \E s \in SalesTables, i \in InventoryTables, db_ok \in BOOLEAN, fail_at \in 0..2 :
        Run("run_full_pipeline", [sales |-> s, inventory |-> i], Env(db_ok, fail_at),
            RunFull(RunSalesPipeline(s, db_ok, 0),
                    RunInventoryPipeline(i, db_ok, fail_at)))

NextPipeline ==
    \/ ExtractFrame
    \/ CleanFrame
    \/ CallAggregate
    \/ RunSalesAnalyticsPipeline
    \/ RunInventoryAnalyticsPipeline
    \/ RunFullPipeline
    \/ AnalyticsReturn

\* the pipeline over small tables
SpecPipeline == InitAnalytics /\ [][NextPipeline]_vars

(***************************************************************************)
(* Inventory rows: the generator that creates them and the repositories    *)
(* that change them.  The id of a row is its position in inventory_rows.   *)
(***************************************************************************)
\* the rows the table may hold
MaxInventoryRows == 1

\* the largest quantity a restocking may lead to
MaxQuantity == 25

\* random.randint(5, 50) and random.randint(5, 15), a few values of each
GeneratedQuantities == {5, 20}
GeneratedReorderPoints == {10}

\* the changes and values the callers of the repositories pass
StockChanges == {-15, -5, 5}
UpdateArguments ==
    {[quantity_available |-> 0], [quantity_available |-> 15],
     [reorder_point |-> 20], [status |-> "active"]}

\* last_restocked is the time the generator chose, until update_stock
\* assigns datetime.utcnow()
InventoryRow(qty, reorder_point, status) ==
    [quantity_available |-> qty, reorder_point |-> reorder_point, status |-> status,
     last_restocked |-> "generated"]

\* variant: a table without the CheckConstraint
CommitAcceptsAnyRow(row) == TRUE

\* CheckConstraint("quantity_available >= 0"): whether the commit succeeds
CommitAccepts(row) == row.quantity_available >= 0

\* a repository or seeder call and what it returned or raised
RepositoryCall(method, args, result, rows) ==
    /\ AnalyticsIdle
    /\ a_call' = [method |-> method, args |-> args]
    /\ a_result' = result
    /\ inventory_rows' = rows
    /\ UNCHANGED <<storageVars, serviceVars, frame, snapshots, sessions>>

\* SyntheticDataGenerator.generate_inventory and DataSeeder.seed_inventory,
\* one record: the status is derived from the quantity and the reorder point
GenerateInventory ==
    /\ Len(inventory_rows) < MaxInventoryRows
    /\ \E qty \in GeneratedQuantities, reorder_point \in GeneratedReorderPoints :
        LET row == InventoryRow(qty, reorder_point, StatusOf(qty, reorder_point))
        IN  RepositoryCall("generate_inventory", <<qty, reorder_point>>,
                           Returned(row), Append(inventory_rows, row))

\* the status update_stock assigns when update_status is set
UpdatedStatus(row, update_status) ==
    IF update_status
    THEN StatusOf(row.quantity_available, row.reorder_point)
    ELSE row.status

\* InventoryRepository.update_stock
UpdateStock ==
    \E id \in 1..MaxInventoryRows, quantity_change \in StockChanges,
       update_status \in BOOLEAN :
        LET args == <<id, quantity_change, update_status>>
        IN  IF id > Len(inventory_rows)
            THEN RepositoryCall("update_stock", args, Returned(None), inventory_rows)
            ELSE
            LET changed == [inventory_rows[id] EXCEPT
                               !.quantity_available = @ + quantity_change,
                               !.last_restocked = "utcnow"]
                row == [changed EXCEPT !.status = UpdatedStatus(changed, update_status)]
            IN  /\ row.quantity_available <= MaxQuantity
                /\ IF CommitAccepts(row)
                   THEN RepositoryCall("update_stock", args, Returned(row),
                                       [inventory_rows EXCEPT ![id] = row])
                   ELSE RepositoryCall("update_stock", args, Raised("IntegrityError"),
                                       inventory_rows)

\* BaseRepository.update: setattr for each keyword argument, then commit
BaseUpdate ==
    \E id \in 1..MaxInventoryRows, kwargs \in UpdateArguments :
        IF id > Len(inventory_rows)
        THEN RepositoryCall("update", <<id, kwargs>>, Returned(None), inventory_rows)
        ELSE LET row == [f \in DOMAIN inventory_rows[id] |->
                            IF f \in DOMAIN kwargs THEN kwargs[f]
                            ELSE inventory_rows[id][f]]
             IN  RepositoryCall("update", <<id, kwargs>>, Returned(row),
                                [inventory_rows EXCEPT ![id] = row])

NextStock ==
    \/ GenerateInventory
    \/ UpdateStock
    \/ BaseUpdate
    \/ AnalyticsReturn

\* the inventory table under the generator and the repositories
SpecStock == InitAnalytics /\ [][NextStock]_vars

(***************************************************************************)
(* The LLM gateway (OpenAIClient): each operation is called with its       *)
(* arguments and with what the provider library does for the call.         *)
(***************************************************************************)
\* the exceptions the provider call, or the reading of its response, raises
ProviderErrors ==
    {"APIConnectionError", "APITimeoutError", "RateLimitError", "AuthenticationError",
     "IndexError"}

ProviderFails(exc) == [kind |-> "error", exc |-> exc]
ProviderAnswers(content) == [kind |-> "ok", content |-> content]

\* what the provider may do for a completion: fail, or answer with a
\* content, which may be None
CompletionOutcomes ==
    {ProviderFails(exc) : exc \in ProviderErrors}
        \cup {ProviderAnswers(content) : content \in {None, AnalysisText}}

\* what the provider may do for an embedding: fail, or answer with a vector
EmbeddingOutcomes ==
    {ProviderFails(exc) : exc \in ProviderErrors} \cup {ProviderAnswers(<<1, 0>>)}

\* OpenAIClient.chat_completion
ChatCompletion(messages, outcome) ==
    IF outcome.kind = "error" THEN Raised(ChatCompletionRaises(outcome.exc))
    ELSE Returned(outcome.content)

\* OpenAIClient.simple_completion
SimpleCompletion(prompt, outcome) ==
    ChatCompletion(<<[role |-> "user", content |-> prompt]>>, outcome)

\* OpenAIClient.structured_completion
StructuredCompletion(system_prompt, user_prompt, outcome) ==
    ChatCompletion(<<[role |-> "system", content |-> system_prompt],
                     [role |-> "user", content |-> user_prompt]>>, outcome)

\* OpenAIClient.generate_embeddings
GenerateEmbeddings(text, outcome) ==
    IF outcome.kind = "error" THEN Raised("LLMServiceError")
    ELSE Returned(outcome.content)

\* what tiktoken may do for a text: fail (an unknown model, no encoding file),
\* or encode it into some number of tokens, none for the empty text and at
\* most one per character
EncodingOutcomes(text) ==
    {ProviderFails("KeyError")}
        \cup {ProviderAnswers(n) : n \in (IF text = <<>> THEN {0} ELSE 1..Len(text))}

\* OpenAIClient.count_tokens
CountTokens(text, outcome) ==
    IF outcome.kind = "error" THEN Returned(Len(text) \div 4)
    ELSE Returned(outcome.content)

\* the texts and prompts passed to the gateway
GatewayTexts == InsightTexts \cup RagQueries

CallChatCompletion ==
    \E text \in GatewayTexts, outcome \in CompletionOutcomes :
        \/ Call("chat_completion", [text |-> text, outcome |-> outcome],
                ChatCompletion(<<[role |-> "user", content |-> text]>>, outcome))
        \/ Call("simple_completion", [text |-> text, outcome |-> outcome],
                SimpleCompletion(text, outcome))
        \/ Call("structured_completion", [text |-> text, outcome |-> outcome],
                StructuredCompletion(AnalysisText, text, outcome))

CallGenerateEmbeddings ==
    \E text \in GatewayTexts, outcome \in EmbeddingOutcomes :
        Call("generate_embeddings", [text |-> text, outcome |-> outcome],
             GenerateEmbeddings(text, outcome))

CallCountTokens ==
    \E text \in GatewayTexts :
        \E outcome \in EncodingOutcomes(text) :
            Call("count_tokens", [text |-> text, outcome |-> outcome],
                 CountTokens(text, outcome))

NextGateway ==
    \/ CallChatCompletion
    \/ CallGenerateEmbeddings
    \/ CallCountTokens
    \/ AnalyticsReturn

\* the gateway under every behaviour of the provider
SpecGateway == InitAnalytics /\ [][NextGateway]_vars

(***************************************************************************)
(* The two stores together: pipeline runs fill the AnalyticsSnapshot table *)
(* while the insights and RAG services fill and read the insight history.  *)
(* One caller issues the operations, one after the other.                  *)
(***************************************************************************)
NextStores ==
    \/ AnalyticsIdle /\ GenerateSalesInsights
    \/ AnalyticsIdle /\ GenerateInventoryInsights
    \/ AnalyticsIdle /\ AnalyzeAnomalies
    \/ AnalyticsIdle /\ AnalyzeTrends
    \/ AnalyticsIdle /\ RetrieveSimilar
    \/ AnalyticsIdle /\ AnswerWithContext
    \/ Return
    \/ Idle /\ RunSalesAnalyticsPipeline
    \/ Idle /\ RunInventoryAnalyticsPipeline
    \/ Idle /\ RunFullPipeline
    \/ AnalyticsReturn

SpecStores == Init /\ [][NextStores]_vars

(***************************************************************************)
(* SyntheticDataGenerator.generate_sales: the price of one sale.  Money is  *)
(* counted in cents; an amount that is not a whole number of cents is the   *)
(* pair of its whole cents and the thousandths of a cent that remain.       *)
(* Discounts are counted in tenths of a percent.                            *)
(***************************************************************************)
\* min(discount_pct, 25)
DiscountCap == 250

\* base_price * (1 - discount_pct / 100)
UnitPrice(base_price, discount_pct) ==
    LET k == 1000 - discount_pct
        rest == (base_price % 1000) * k
    IN  [whole |-> (base_price \div 1000) * k + rest \div 1000,
         part |-> rest % 1000]

\* unit_price * quantity, from the price that has not been rounded
TotalAmount(unit_price, quantity) ==
    [whole |-> unit_price.whole * quantity + (unit_price.part * quantity) \div 1000,
     part |-> (unit_price.part * quantity) % 1000]

\* round(x, 2): the nearest cent; an amount half way between two cents goes
\* to the side its binary representation lies on
Round2(x) ==
    IF 2 * x.part < 1000 THEN {x.whole}
    ELSE IF 2 * x.part > 1000 THEN {x.whole + 1}
    ELSE {x.whole, x.whole + 1}

\* the msrp of the vehicle sold, a Decimal of two places
BasePrices == {2500000, 3199999, 4550050}

\* random.uniform over the range of each customer segment
SegmentDiscounts ==
    [individual |-> {0, 33, 80}, fleet |-> {50, 125, 150}, dealer |-> {100, 177, 200}]

\* random.uniform(0, 5) in a slow month, nothing otherwise
SeasonalDiscounts == {0, 25, 50}

\* 1, random.randint(3, 20) and random.randint(5, 30)
SegmentQuantities ==
    [individual |-> {1}, fleet |-> {3, 20}, dealer |-> {5, 30}]

CustomerSegments == {"individual", "fleet", "dealer"}

Min(a, b) == IF a < b THEN a ELSE b

\* one generated record, stored by DataSeeder.seed_sales as it is: the
\* columns unit_price and total_amount are Numeric with two places
GenerateSales ==
    \E customer_segment \in CustomerSegments, base_price \in BasePrices :
    \E quantity \in SegmentQuantities[customer_segment] :
    \E segment_pct \in SegmentDiscounts[customer_segment], seasonal_pct \in SeasonalDiscounts :
        LET discount_pct == Min(segment_pct + seasonal_pct, DiscountCap)
            unit_price == UnitPrice(base_price, discount_pct)
            total_amount == TotalAmount(unit_price, quantity)
        IN  \E stored_unit \in Round2(unit_price), stored_total \in Round2(total_amount) :
                Call("generate_sales",
                     [base_price |-> base_price, customer_segment |-> customer_segment],
                     Returned([quantity |-> quantity,
                               unit_price |-> stored_unit,
                               total_amount |-> stored_total,
                               customer_segment |-> customer_segment,
                               discount_applied |-> discount_pct]))

NextSeed ==
    \/ GenerateSales
    \/ AnalyticsReturn

SpecSeed == InitAnalytics /\ [][NextSeed]_vars

(***************************************************************************)
(* InsightsService._parse_insights_response over the model responses of up *)
(* to MaxInsightLines lines                                                *)
(***************************************************************************)
MaxInsightLines == 3

\* the lines a response is made of: numbered with "." and with ")", a
\* continuation line, a two-digit number, a blank line
ParserLines ==
    {InsightLineOne, InsightLineTwo, InsightLineMore, InsightLineTen, <<>>}

ParserResponses ==
    {JoinWith(ls, <<"\n">>) :
        ls \in UNION {[1..n -> ParserLines] : n \in 1..MaxInsightLines}}

CallParseInsightsResponse ==
    \E resp \in ParserResponses, insight_type \in {"sales", "inventory"} :
        Call("_parse_insights_response", <<resp, insight_type>>,
             Returned(ParseInsightsResponse(resp, insight_type)))

NextParse ==
    \/ CallParseInsightsResponse
    \/ AnalyticsReturn

SpecParse == InitAnalytics /\ [][NextParse]_vars

(***************************************************************************)
(* RAGService.retrieve_similar_insights over stored histories: every       *)
(* history of up to MaxRagHistory records, and one history longer than the *)
(* RecentLimit most recent records the query reads                         *)
(***************************************************************************)
MaxRagHistory == 3

\* the records stored by the insight generators
RagRecords ==
    {InsightRecord(InsightLineOne, "sales_trend", {}),
     InsightRecord(AnalysisText, "sales_trend", {}),
     InsightRecord(AnalysisText, "inventory_status", {}),
     InsightRecord(InsightLineTwo, "inventory_status", {})}

\* the oldest record matches both words of QueryUp; RecentLimit newer ones
\* match one word
LongHistory ==
    <<InsightRecord(InsightLineOne, "sales_trend", {})>>
        \o [i \in 1..RecentLimit |-> InsightRecord(AnalysisText, "sales_trend", {})]

RagHistories ==
    {LongHistory} \cup UNION {[1..n -> RagRecords] : n \in 0..MaxRagHistory}

InitRag ==
    /\ sales = EmptyBag
    /\ inventory = EmptyBag
    /\ insight_history \in RagHistories
    /\ today = Today
    /\ IdleService
    /\ a_call = NoCall
    /\ a_result = NoResult
    /\ IdlePipeline

CallRetrieveSimilarInsights ==
    \E query \in RagQueries, limit \in {1, 2, 5}, insight_type \in {None, "sales_trend"} :
        Call("retrieve_similar_insights",
             [query |-> query, limit |-> limit, insight_type |-> insight_type],
             Returned(RetrieveSimilarInsights(insight_history, query, limit, insight_type)))

NextRag ==
    \/ CallRetrieveSimilarInsights
    \/ AnalyticsReturn

SpecRag == InitRag /\ [][NextRag]_vars

(***************************************************************************)
(* process_query with the call of _extract_sql made visible: a_call keeps  *)
(* the model response _extract_sql was given and a_result what it returned *)
(***************************************************************************)
GenerateSqlExtracting ==
    /\ op = "process_query" /\ pc = "generate_sql"
    /\ AnalyticsIdle
    /\ calls' = Bump(Bump(calls, "llm_sql"), "llm")
    /\ \/ \* the provider call fails
          /\ QueryFails(GenerateSqlRaises(ChatCompletionRaises("APIError")), "llm", {"sql"})
          /\ UNCHANGED analyticsVars
       \/ \* the completion has no content: re.sub raises TypeError
          /\ QueryFails(GenerateSqlRaises("TypeError"), "extract", {})
          /\ UNCHANGED analyticsVars
       \/ \E text \in ResponseTexts :
            /\ a_call' = [method |-> "_extract_sql", args |-> <<text>>]
            /\ a_result' = Returned(ExtractSql(text))
            /\ sql_query' = ExtractSql(text)
            /\ pc' = "validate"
            /\ qlog' = [qlog EXCEPT !.stages = Append(@, "generate")]
            /\ UNCHANGED response
    /\ UNCHANGED <<results, raised, op, storageVars, pipelineVars>>

NextExtract ==
    \/ AnalyticsIdle /\ ProcessQuery
    \/ GenerateSqlExtracting
    \/ ValidateSql
    \/ ExecuteQuery
    \/ FormatResults
    \/ GenerateExplanation
    \/ Return
    \/ Idle /\ AnalyticsReturn

SpecExtract == InitAnalytics /\ [][NextExtract]_vars

(***************************************************************************)
(* process_query over results of up to MaxExplainRows rows, more than the  *)
(* PreviewLimit rows that _generate_explanation sends to the model         *)
(***************************************************************************)
MaxExplainRows == 12

ExecuteLargeQuery == ExecuteQueryOver(0..MaxExplainRows)

NextExplain ==
    \/ ProcessQuery
    \/ GenerateSql
    \/ ValidateSql
    \/ ExecuteLargeQuery
    \/ FormatResults
    \/ GenerateExplanation
    \/ Return

SpecExplain == InitAnalytics /\ [][NextExplain]_vars

(***************************************************************************)
(* InventoryRepository.update_stock called by two requests at once.  Each  *)
(* request has a Session of its own (SessionLocal, no locking, no version  *)
(* column); a call is the steps get_by_id, the assignments to the loaded   *)
(* object, and commit, and the steps of the two calls interleave.          *)
(***************************************************************************)
InFlight(w, at) == sessions[w].pc = at

Step(w, session, rows) ==
    /\ sessions' = [sessions EXCEPT ![w] = session]
    /\ inventory_rows' = rows
    /\ UNCHANGED <<storageVars, serviceVars, analyticsVars, frame, snapshots>>

\* a request calls update_stock(id, quantity_change, update_status)
BeginUpdateStock(w) ==
    /\ InFlight(w, "idle")
    /\ \E id \in 1..MaxInventoryRows, quantity_change \in StockChanges,
          update_status \in BOOLEAN :
         Step(w, [pc |-> "get_by_id", id |-> id, quantity_change |-> quantity_change,
                  update_status |-> update_status],
              inventory_rows)

\* self.get_by_id(id): the row as it is stored now, or None
GetById(w) ==
    /\ InFlight(w, "get_by_id")
    /\ LET s == sessions[w]
       IN  IF s.id > Len(inventory_rows)
           THEN Step(w, [pc |-> "done", id |-> s.id,
                         quantity_change |-> s.quantity_change,
                         update_status |-> s.update_status,
                         found |-> FALSE,
                         result |-> Returned(None)],
                     inventory_rows)
           ELSE Step(w, [pc |-> "modify", id |-> s.id,
                         quantity_change |-> s.quantity_change,
                         update_status |-> s.update_status,
                         loaded |-> inventory_rows[s.id],
                         inventory |-> inventory_rows[s.id]],
                     inventory_rows)

\* the assignments to the loaded object
ModifyLoaded(w) ==
    /\ InFlight(w, "modify")
    /\ LET s == sessions[w]
           changed == [s.inventory EXCEPT !.quantity_available = @ + s.quantity_change,
                                          !.last_restocked = "utcnow"]
           row == [changed EXCEPT !.status = UpdatedStatus(changed, s.update_status)]
       IN  Step(w, [s EXCEPT !.pc = "commit", !.inventory = row], inventory_rows)

\* self.db.commit(): the UPDATE sets the attributes whose value differs from
\* the loaded one, on the row as it is stored now; a row the CheckConstraint
\* refuses raises, and the except clause rolls back
CommitSession(w) ==
    /\ InFlight(w, "commit")
    /\ LET s == sessions[w]
           stored == inventory_rows[s.id]
           written == [f \in DOMAIN stored |->
                          IF s.inventory[f] # s.loaded[f] THEN s.inventory[f]
                          ELSE stored[f]]
           done == [pc |-> "done", id |-> s.id, quantity_change |-> s.quantity_change,
                    update_status |-> s.update_status, found |-> TRUE]
       IN  IF CommitAccepts(written)
           THEN Step(w, done @@ [result |-> Returned(written)],
                     [inventory_rows EXCEPT ![s.id] = written])
           ELSE Step(w, done @@ [result |-> Raised("IntegrityError")], inventory_rows)

NextConcurrent ==
    \/ GenerateInventory
    \/ \E w \in Writers :
         \/ BeginUpdateStock(w)
         \/ GetById(w)
         \/ ModifyLoaded(w)
         \/ CommitSession(w)

\* one generated row and one update_stock call of each request
SpecConcurrent == InitAnalytics /\ [][NextConcurrent]_vars

(***************************************************************************)
(* Properties of the calculators                                           *)
(***************************************************************************)
Called(method) == a_call.method = method

\* C7: for every inventory state, the empty table included, calculate_all_kpis
\* returns a stock_availability_rate within [0, 100] that equals
\* (active + low) / (active + low + out_of_stock) * 100 when that denominator
\* is positive and 0 when it is 0.
C7_StockAvailabilityRateAlwaysReturned ==
    Called("calculate_all_kpis") =>
        /\ a_result.status = "ok"
        /\ LET rate    == a_result.value.stock_availability_rate
               stocked == StatusCount(inventory, "active") + StatusCount(inventory, "low")
               total   == stocked + StatusCount(inventory, "out_of_stock")
           IN  /\ RatioLeq(RatioZero, rate)
               /\ RatioLeq(rate, Ratio(100, 1))
               /\ total > 0 => RatioEq(rate, Ratio(stocked * 100, total))
               /\ total = 0 => RatioEq(rate, RatioZero)

SalesWindowMethods ==
    {"get_sales_trends", "get_regional_performance", "get_top_selling_vehicles",
     "get_category_breakdown", "get_customer_segment_analysis",
     "calculate_moving_average"}

InventoryListMethods ==
    {"get_inventory_by_region", "get_inventory_by_category", "get_inventory_by_status",
     "get_warehouse_utilization"}

\* C8: when extraction yields no rows (an empty sales table and/or an empty
\* inventory table) every calculator method returns its zero-valued or empty
\* structure and raises nothing; get_sales_summary returns exactly the five
\* zero fields.
C8_EmptyInputGivesZeroStructure ==
    LET no_sales == RowCount(sales) = 0
        no_stock == RowCount(inventory) = 0
        m == a_call.method
    IN  (m # "none" /\ (no_sales \/ no_stock)) =>
            /\ a_result.status = "ok"
            /\ (no_sales /\ m = "get_sales_summary") =>
                   a_result.value = EmptySalesSummary
            /\ (no_sales /\ m \in SalesWindowMethods) => Len(a_result.value) = 0
            /\ (no_sales /\ m \in {"detect_sales_anomalies", "forecast_simple"}) =>
                   Len(a_result.value) = 0
            /\ (no_sales /\ m = "identify_seasonal_patterns") => a_result.value.empty
            /\ (no_stock /\ m = "get_inventory_summary") =>
                   a_result.value = EmptyInventorySummary
            /\ (no_stock /\ m \in InventoryListMethods) => Len(a_result.value) = 0
            /\ (no_stock /\ m \in {"get_low_stock_alerts", "get_overstock_items"}) =>
                   RowCount(a_result.value) = 0
            /\ (no_sales /\ m = "calculate_all_kpis") =>
                   a_result.value.total_revenue = 0

\* the value the claim gives revenue_change_pct
ClaimedChangePct(current, previous) ==
    IF previous = 0 THEN RatioZero ELSE Ratio((current - previous) * 100, previous)

\* C9: in compare_periods and calculate_period_comparison revenue_change_pct
\* is 0, and nothing is raised, whenever the previous period's total_revenue
\* is 0; otherwise it is (current - previous) / previous * 100.
C9_RevenueChangePctGuarded ==
    /\ Called("compare_periods") =>
           LET a == a_call.args
               cur  == GetSalesSummary(a[1], a[2]).total_revenue
               prev == GetSalesSummary(a[3], a[4]).total_revenue
           IN  /\ a_result.status = "ok"
               /\ RatioEq(a_result.value.revenue_change_pct, ClaimedChangePct(cur, prev))
    /\ Called("calculate_period_comparison") =>
           LET w == ComparisonWindows(a_call.args[1])
               cur  == GetSalesSummary(w.current_start, w.end_date).total_revenue
               prev == GetSalesSummary(w.previous_start, w.previous_end).total_revenue
           IN  /\ a_result.status = "ok"
               /\ RatioEq(a_result.value.changes.revenue_change_pct,
                          ClaimedChangePct(cur, prev))

\* the number of distinct sale dates in a window
DailyPoints(start_date, end_date) ==
    Cardinality({r.sale_date : r \in DOMAIN ExtractSales(start_date, end_date)})

\* C10: detect_sales_anomalies returns an empty list whenever the requested
\* window holds fewer than 7 daily data points, for every number of
\* transactions on those days and every threshold.
C10_FewerThanSevenDaysGivesNoAnomalies ==
    (Called("detect_sales_anomalies")
        /\ DailyPoints(a_call.args[1], a_call.args[2]) < MinAnomalyRows)
    => (a_result.status = "ok" /\ Len(a_result.value) = 0)

(***************************************************************************)
(* Properties of the services                                              *)
(***************************************************************************)
StageOrder == <<"generate", "validate", "execute", "explain">>

IsPrefix(s, t) == Len(s) <= Len(t) /\ SubSeq(t, 1, Len(s)) = s

InQuery == op = "process_query"

QueryDone == InQuery /\ pc = "done"

QueryFailed == response.kind = "query" /\ ~response.success

\* what holds of the stages in every state of an invocation of process_query
StagesInOrder ==
    InQuery =>
      /\ IsPrefix(qlog.stages, StageOrder)
      /\ qlog.executed \subseteq qlog.validated
      /\ qlog.executed \subseteq {sql_query}
      /\ calls.db_execute > 0 => sql_query \in qlog.validated
      /\ calls.llm_explain > 0 => calls.db_execute = 1 /\ results >= 0
      /\ response # NoResponse => pc = "done"
      /\ QueryFailed =>
           /\ calls.llm_explain = 0
           /\ response.error \in {ErrAIService, ErrNoSql, ErrValidation}
                => calls.db_execute = 0

\* once process_query has its response the only step left is the return
NoStageAfterResponse ==
    (InQuery /\ response # NoResponse) =>
        /\ op' = "none"
        /\ UNCHANGED <<sales, inventory, insight_history>>

\* C1: in process_query the stages occur only in the order generation,
\* validation, execution, explanation: the statement handed to storage is the
\* one _is_safe_query accepted, the explanation call is issued only after an
\* execution that returned rows, and a failed stage ends the query before any
\* later stage.
C1_StagesOccurInOrder == [](StagesInOrder) /\ [][NoStageAfterResponse]_vars

\* a query that went through all four stages
C1_Witness ==
    /\ QueryDone
    /\ qlog.stages = StageOrder
    /\ response.kind = "query" /\ response.success
    /\ qlog.executed = {sql_query}

\* the keywords the validator must refuse anywhere in the statement
ClaimedKeywords ==
    {<<"I", "N", "S", "E", "R", "T">>, <<"U", "P", "D", "A", "T", "E">>,
     <<"D", "E", "L", "E", "T", "E">>, <<"D", "R", "O", "P">>,
     <<"C", "R", "E", "A", "T", "E">>, <<"A", "L", "T", "E", "R">>,
     <<"T", "R", "U", "N", "C", "A", "T", "E">>, <<"E", "X", "E", "C">>,
     <<"E", "X", "E", "C", "U", "T", "E">>}

ClaimedUnsafe(sql) ==
    \/ ~StartsWith(Upper(sql), KwSelect)
    \/ \E k \in ClaimedKeywords : Contains(Upper(sql), k)

\* _generate_sql returned a candidate statement (possibly the empty one)
CandidateProduced ==
    /\ InQuery
    /\ pc # "generate_sql"
    /\ qlog.exc_origin \notin {"llm", "extract"}

\* C2: a candidate statement that does not start with SELECT (whatever the
\* case) or that contains one of INSERT, UPDATE, DELETE, DROP, CREATE, ALTER,
\* TRUNCATE, EXEC, EXECUTE anywhere is rejected: process_query returns
\* success=false with the validation error (for the empty statement, the only
\* candidate without the SELECT prefix, with "Could not generate SQL query")
\* and storage execute is never called.
C2_UnsafeStatementRejected ==
    (CandidateProduced /\ ClaimedUnsafe(sql_query)) =>
        /\ calls.db_execute = 0
        /\ qlog.executed = {}
        /\ pc \in {"validate", "done"}
        /\ pc = "done" =>
             response = QueryFailure(IF sql_query = <<>> THEN ErrNoSql
                                     ELSE ErrValidation, <<>>)

\* "SELECT * FROM sales; DROP TABLE sales;" was rejected
C2_Witness ==
    /\ QueryDone
    /\ sql_query = LineInject
    /\ response = QueryFailure(ErrValidation, <<>>)
    /\ calls.db_execute = 0

InsightsOps ==
    {"generate_sales_insights", "generate_inventory_insights", "analyze_anomalies",
     "analyze_trends"}

ReportOps ==
    {"generate_executive_report", "generate_detailed_report", "generate_product_report"}

RagOps == {"retrieve_similar_insights", "answer_with_context"}

\* the operations whose except clauses raise a new exception
WrappingOps ==
    {"generate_sales_insights", "generate_inventory_insights",
     "generate_executive_report", "generate_detailed_report"}

ExecutionFailed == calls.db_execute > 0 /\ results = -1

C5_NothingRetried ==
    /\ calls.llm_sql <= 1
    /\ calls.db_execute <= 1
    /\ calls.llm_explain <= 1
    /\ InQuery => calls.llm = calls.llm_sql + calls.llm_explain
    /\ op \in InsightsOps \cup ReportOps \cup RagOps => calls.llm <= 1
    /\ (pc = "done" /\ raised.origin = "llm") => calls.llm = 1

\* a query whose execution failed after one SQL-generation call and one execute
C5_Witness ==
    /\ QueryDone
    /\ ExecutionFailed
    /\ calls.llm_sql = 1 /\ calls.db_execute = 1 /\ calls.llm_explain = 0

RaisedInQuery == QueryDone /\ qlog.exc_origin # "none"

\* the statement of C6 as written: "AI service error" exactly for a failure
\* that originated in a gateway call
C6_CategoryFollowsOrigin ==
    RaisedInQuery =>
      /\ response.error = ErrAIService <=> qlog.exc_origin = "llm"
      /\ response.error = ErrProcessing <=> qlog.exc_origin # "llm"

\* C6: a failure response of process_query that comes from a raised error
\* says "AI service error" exactly when the error was raised inside
\* _generate_sql, by the gateway call or by anything else there (the SQL
\* extraction included), and "Query processing error" exactly when it was
\* raised in a later stage of process_query.
C6_CategoryFollowsStage ==
    RaisedInQuery =>
      /\ QueryFailed
      /\ response.error \in {ErrAIService, ErrProcessing}
      /\ response.error = ErrAIService <=> qlog.exc_origin \in {"llm", "extract"}
      /\ response.error = ErrProcessing <=> qlog.exc_origin = "format"

\* a TypeError of the SQL extraction reported as "AI service error"
C6_Witness ==
    /\ RaisedInQuery
    /\ qlog.exc_origin = "extract"
    /\ response.error = ErrAIService

(***************************************************************************)
(* Properties of the pipeline                                              *)
(***************************************************************************)
Aggregated == a_call.method \in AggregatorMethods

\* C11: every DataAggregator aggregation, given a table without rows,
\* returns an empty result and raises nothing
C11_EmptyInputGivesEmptyResult ==
    (Aggregated /\ a_call.args.df.rows = <<>>) => a_result = Returned(<<>>)

\* C12: an aggregation is pure: the same call made again on the caller's
\* table returns the same output, and the caller's table is as it was before
\* the call
C12_AggregationIsPure ==
    Aggregated =>
        /\ Aggregate(a_call.method, frame, a_call.args.n) = a_result
        /\ frame = a_call.args.df

VehicleColumns ==
    {"vehicle_id", "make", "model", "category", "quantity", "total_amount"}

\* the summed amount and quantity of a vehicle over the rows of a frame
VehicleTotal(df, v) ==
    SeqSum(df.rows, LAMBDA r : IF r.vehicle_id = v THEN r.total_amount ELSE 0)

VehicleQuantity(df, v) ==
    SeqSum(df.rows, LAMBDA r : IF r.vehicle_id = v THEN r.quantity ELSE 0)

TopNCalled ==
    /\ a_call.method = "aggregate_top_n_vehicles"
    /\ VehicleColumns \subseteq a_call.args.df.columns

\* the frame whose vehicles total 500, 300 and 800
TotalsExample ==
    /\ TopNCalled
    /\ a_call.args.n = 2
    /\ LET df == a_call.args.df
       IN  /\ {r.vehicle_id : r \in {df.rows[i] : i \in 1..Len(df.rows)}} = {1, 2, 3}
           /\ <<VehicleTotal(df, 1), VehicleTotal(df, 2), VehicleTotal(df, 3)>>
                  = <<500, 300, 800>>

\* C13: aggregate_top_n_vehicles on a table with the vehicle columns returns
\* one row per vehicle with its summed quantity and amount, min(N, number of
\* vehicles) rows, in non-increasing order of amount, and no vehicle left out
\* has a larger amount than one returned; totals 500, 300, 800 with N = 2
\* give 800, 500
C13_TopNVehicles ==
    TopNCalled =>
        /\ a_result.status = "ok"
        /\ LET df == a_call.args.df
               n == a_call.args.n
               out == a_result.value
               vehicles == {df.rows[i].vehicle_id : i \in 1..Len(df.rows)}
               included == {out[i].key : i \in 1..Len(out)}
           IN  /\ Len(out) = IF n < Cardinality(vehicles) THEN n
                             ELSE Cardinality(vehicles)
               /\ included \subseteq vehicles
               /\ Cardinality(included) = Len(out)
               /\ \A i \in 1..Len(out) :
                    /\ out[i].total_amount = VehicleTotal(df, out[i].key)
                    /\ out[i].quantity = VehicleQuantity(df, out[i].key)
               /\ \A i \in 1..(Len(out) - 1) :
                    out[i].total_amount >= out[i + 1].total_amount
               /\ \A v \in vehicles \ included : \A i \in 1..Len(out) :
                    VehicleTotal(df, v) <= out[i].total_amount
               /\ TotalsExample =>
                    [i \in 1..Len(out) |-> out[i].total_amount] = <<800, 500>>

C13_Witness ==
    /\ TotalsExample
    /\ a_result.status = "ok"
    /\ Len(a_result.value) = 2
    /\ a_result.value[1].key = 3
    /\ a_result.value[2].key = 1

NoFailure == Env(TRUE, 0)

SalesSnapshotTypes ==
    <<"daily_sales", "sales_by_region", "sales_by_category", "sales_by_segment",
      "top_vehicles">>

\* a pipeline run starts and ends in this step
Ran(method) == AnalyticsIdle /\ a_call'.method = method

\* C14: a sales pipeline run whose extraction returns at least one row, with
\* storage working, returns status "success" with records_processed the number
\* of rows left after cleaning, and appends exactly the five snapshots
\* daily_sales, sales_by_region, sales_by_category, sales_by_segment and
\* top_vehicles, in that order
C14_SalesPipelineSucceeds ==
    [][(/\ Ran("run_sales_analytics_pipeline")
        /\ a_call'.env = NoFailure
        /\ a_call'.args.sales # <<>>)
       => /\ a_result'.status = "ok"
          /\ a_result'.value.status = "success"
          /\ a_result'.value.records_processed =
                 Len(ValidatePositiveValues(
                         RemoveDuplicates(ExtractSalesWithVehicleInfo(a_call'.args.sales)),
                         {"total_amount", "quantity"}).rows)
          /\ Len(snapshots') = Len(snapshots) + 5
          /\ SubSeq(snapshots', 1, Len(snapshots)) = snapshots
          /\ [i \in 1..5 |-> snapshots'[Len(snapshots) + i].metric_type]
                 = SalesSnapshotTypes]_vars

\* C15: a sales or inventory pipeline run whose extraction returns no rows
\* returns status "no_data" with zero records, raises nothing and persists no
\* snapshot; a full run whose sales extraction returns no rows goes on to the
\* inventory run and, unless that one fails, returns a summary with both
\* sub-results
C15_NoDataIsNotAnError ==
    [][/\ (/\ \/ Ran("run_sales_analytics_pipeline") /\ a_call'.args.sales = <<>>
              \/ Ran("run_inventory_analytics_pipeline")
                    /\ a_call'.args.inventory = <<>>
           /\ a_call'.env.db_ok)
          => /\ a_result' = Returned(NoData)
             /\ snapshots' = snapshots
       /\ (/\ Ran("run_full_pipeline")
           /\ a_call'.args.sales = <<>>
           /\ a_call'.env.db_ok)
          => /\ a_call'.args.inventory = <<>> =>
                  /\ a_result' = Returned([status |-> "success", sales |-> NoData,
                                           inventory |-> NoData])
                  /\ snapshots' = snapshots
             /\ a_call'.env.fail_at = 0 =>
                  /\ a_result'.status = "ok"
                  /\ a_result'.value.sales = NoData
                  /\ a_result'.value.inventory.status \in {"no_data", "success"}]_vars

C15_Witness ==
    /\ a_call.method = "run_full_pipeline"
    /\ a_call.args.sales = <<>>
    /\ a_call.args.inventory = <<>>
    /\ a_result.status = "ok"
    /\ a_result.value.sales.status = "no_data"
    /\ a_result.value.inventory.status = "no_data"
    /\ snapshots = <<>>

(***************************************************************************)
(* Properties of the inventory rows                                        *)
(***************************************************************************)
\* C16: in every reachable state each inventory row has the status its
\* quantity and reorder point give: out_of_stock iff the quantity is 0, low
\* iff it is above 0 and below the reorder point, active otherwise
C16_StatusFollowsQuantity ==
    \A id \in 1..Len(inventory_rows) :
        LET row == inventory_rows[id]
        IN  /\ row.status = "out_of_stock" <=> row.quantity_available = 0
            /\ row.status = "low" <=>
                   (0 < row.quantity_available
                       /\ row.quantity_available < row.reorder_point)
            /\ row.status \in {"out_of_stock", "low", "active"}

(***************************************************************************)
(* Properties of the services: storage and failures                        *)
(***************************************************************************)
InsightsGenerators == {"generate_sales_insights", "generate_inventory_insights"}

StoredType(name) ==
    IF name = "generate_sales_insights" THEN "sales_trend" ELSE "inventory_status"

\* C17: when generate_sales_insights or generate_inventory_insights returns
\* k insights, the history has grown by exactly k records, one per insight
\* with its text and the type sales_trend or inventory_status, in the order
\* of the list, whether the storage commits succeed or fail
C17_ReturnedInsightsAreStored ==
    [][(Idle /\ op' \in InsightsGenerators /\ response'.kind = "insights")
       => LET insights == response'.insights
          IN  insight_history' =
                  insight_history \o
                      [i \in 1..Len(insights) |->
                          InsightRecord(insights[i].text, StoredType(op'),
                                        insights[i].metadata)]]_vars

\* the operation met a storage or gateway failure
RunFailed ==
    \/ raised # NoException
    \/ qlog.exc_origin # "none"
    \/ qlog.llm_failed # {}
    \/ ExecutionFailed

\* what the operation returns for a successful run that finds no data
NoDataResponses ==
    CASE op = "retrieve_similar_insights" -> {[kind |-> "similar", items |-> <<>>]}
      [] op = "answer_with_context" ->
             {[kind |-> "answer", answer |-> AnalysisText, context_used |-> <<>>,
               context_count |-> 0]}
      [] op = "process_query" -> {QuerySuccess(sql_query, 0, LlmText)}
      [] op = "analyze_anomalies" ->
             {[kind |-> "anomalies", anomalies |-> <<>>,
               explanation |-> NoAnomaliesText]}
      [] OTHER -> {}

\* C18: a run that met a storage or gateway failure never ends with the
\* result the same operation gives for a successful run over empty or
\* non-matching data
C18_FailureDistinctFromNoData ==
    (pc = "done" /\ RunFailed) =>
        ~(raised = NoException /\ response \in NoDataResponses)

\* C19: a validation error comes before any side effect: generate_product_report
\* for a vehicle id that matches no vehicle raises ValueError having issued
\* no gateway call and written nothing to storage, and a query whose SQL
\* fails validation has executed nothing on storage and issued no
\* explanation call
C19_ValidationBeforeSideEffects ==
    /\ [](/\ (pc = "done" /\ op = "generate_product_report"
                /\ raised.origin = "validation")
             => /\ raised.type = "ValueError"
                /\ response = NoResponse
                /\ calls = NoCalls
          /\ (QueryDone /\ response.error = ErrValidation)
             => /\ calls.db_execute = 0
                /\ calls.llm_explain = 0
                /\ qlog.executed = {}
                /\ results = -1)
    /\ [][(\/ op' = "generate_product_report" /\ raised'.origin = "validation"
           \/ op = "process_query" /\ pc = "validate")
          => UNCHANGED <<storageVars, snapshots, inventory_rows>>]_vars

C19_Witness ==
    /\ pc = "done"
    /\ op = "generate_product_report"
    /\ raised = [type |-> "ValueError", origin |-> "validation"]
    /\ calls.llm = 0
    /\ insight_history = <<>>

(***************************************************************************)
(* Properties of the gateway                                               *)
(***************************************************************************)
CompletionMethods == {"chat_completion", "simple_completion", "structured_completion"}

\* C20: chat_completion, simple_completion, structured_completion and
\* generate_embeddings raise LLMServiceError, and nothing else, exactly when
\* the provider call fails, whatever the provider's error; count_tokens
\* never raises and returns the estimate len(text) // 4 when the encoding
\* fails
C20_SingleTypedServiceError ==
    /\ a_call.method \in CompletionMethods \cup {"generate_embeddings"} =>
        IF a_call.args.outcome.kind = "error"
        THEN a_result = Raised("LLMServiceError")
        ELSE a_result = Returned(a_call.args.outcome.content)
    /\ a_call.method = "count_tokens" =>
        /\ a_result.status = "ok"
        /\ a_call.args.outcome.kind = "error" =>
               a_result.value = Len(a_call.args.text) \div 4

C20_Witness ==
    /\ a_call.method = "structured_completion"
    /\ a_call.args.outcome = ProviderFails("RateLimitError")
    /\ a_result = Raised("LLMServiceError")

C22_TotalIsPriceTimesQuantity ==
    a_call.method = "generate_sales"
        => a_result.value.total_amount = a_result.value.unit_price * a_result.value.quantity

\* C25: calculate_period_comparison(N) compares a current and a previous
\* window of exactly N days each (period_days is N for both); the current
\* window ends today, the previous window ends on the day before the current
\* window starts, and so the two are adjacent and disjoint.
C25_WindowsAdjacentAndEqual ==
    (Called("calculate_period_comparison") /\ a_result.status = "ok") =>
        LET N == a_call.args[1]
            current  == a_result.value.current_period
            previous == a_result.value.previous_period
        IN  /\ current.period_days = N
            /\ previous.period_days = N
            /\ current.period_end = today
            /\ current.period_end - current.period_start + 1 = N
            /\ previous.period_end - previous.period_start + 1 = N
            /\ previous.period_end + 1 = current.period_start
            /\ previous.period_end < current.period_start

C25_Witness ==
    /\ Called("calculate_period_comparison")
    /\ a_call.args[1] = MaxPeriodDays
    /\ a_result.status = "ok"
    /\ a_result.value.current_period.total_revenue > 0
    /\ a_result.value.previous_period.period_start = today - 2 * MaxPeriodDays + 1

\* the length of a numbered-list marker at the start of a stripped line: the
\* digits of a number and the "." or ")" after them; 0 when there is none
MarkerLen(line) ==
    LET digits == {k \in 1..Len(line) : \A i \in 1..k : IsDigit(line[i])}
        k == Cardinality(digits)
    IN  IF k > 0 /\ Len(line) > k + 1 /\ line[k + 1] \in {".", ")"} THEN k + 1 ELSE 0

RECURSIVE NumberedItems(_, _, _, _)
\* one insight per line that begins with a marker, the unnumbered lines that
\* follow it appended to it
NumberedItems(lines, insights, current, insight_type) ==
    IF lines = <<>> THEN insights \o current
    ELSE LET line == Strip(lines[1])
             rest == Tail(lines)
         IN  IF line = <<>> THEN NumberedItems(rest, insights, current, insight_type)
             ELSE IF MarkerLen(line) > 0
             THEN NumberedItems(rest, insights \o current,
                                <<Insight(Strip(SubSeq(line, MarkerLen(line) + 1, Len(line))),
                                          insight_type)>>,
                                insight_type)
             ELSE IF current # <<>>
             THEN NumberedItems(rest, insights,
                                <<[current[1] EXCEPT !.text = @ \o <<" ">> \o line]>>,
                                insight_type)
             ELSE NumberedItems(rest, insights, current, insight_type)

\* C23: _parse_insights_response returns one insight per line that begins
\* with a numbered-list marker (a number followed by "." or ")", "10."
\* included), the unnumbered lines that follow appended to it; with no
\* numbered item the result is one insight whose text is the whole response,
\* and the result is never empty.
C23_OneInsightPerNumberedLine ==
    Called("_parse_insights_response") =>
        LET resp == a_call.args[1]
            insight_type == a_call.args[2]
            items == NumberedItems(SplitLines(resp), <<>>, <<>>, insight_type)
        IN  /\ a_result.status = "ok"
            /\ a_result.value # <<>>
            /\ a_result.value =
                   IF items = <<>> THEN <<Insight(resp, insight_type)>> ELSE items

\* the number of lowercase tokens of the query that occur in the lowercased
\* text
TokenScore(query, text) ==
    LET tokens == SplitWords(Lower(query))
    IN  Cardinality({i \in 1..Len(tokens) : Contains(Lower(text), tokens[i])})

\* the ids of the RecentLimit most recent records of the type asked for
RecentCandidates(insight_type) ==
    LET typed == {id \in 1..Len(insight_history) :
                     insight_type = None
                         \/ insight_history[id].insight_type = insight_type}
    IN  {id \in typed : Cardinality({j \in typed : j > id}) < RecentLimit}

FencelessLines(resp) ==
    LET r1 == RemoveAll(resp, <<"bt", "bt", "bt", "s", "q", "l", "\n">>)
        r2 == RemoveAll(r1, <<"bt", "bt", "bt", "\n">>)
        r3 == RemoveAll(r2, <<"bt", "bt", "bt">>)
        lines == SplitLines(r3)
    IN  [i \in 1..Len(lines) |-> Strip(lines[i])]

\* the lines from the first one that starts with SELECT to the first one,
\* from there on, that ends with ";" (to the last line when there is none),
\* joined by spaces; empty when no line starts with SELECT
FirstSelectStatement(resp) ==
    LET lines  == FencelessLines(resp)
        starts == {i \in 1..Len(lines) : StartsWith(Upper(lines[i]), KwSelect)}
    IN  IF starts = {} THEN <<>>
        ELSE LET s == CHOOSE i \in starts : \A j \in starts : i <= j
                 ends == {i \in s..Len(lines) : EndsWith(lines[i], <<";">>)}
                 e == IF ends = {} THEN Len(lines)
                      ELSE CHOOSE i \in ends : \A j \in ends : i <= j
             IN  Strip(JoinWith(SubSeq(lines, s, e), <<" ">>))

\* C26: _extract_sql returns the first SELECT statement of the response:
\* the fences removed, the stripped lines from the first line that starts
\* with SELECT (in any case) to the first line from there that ends with ";",
\* joined by spaces, and nothing after that line; with no line starting with
\* SELECT it returns the empty string, and process_query then fails with
\* "Could not generate SQL query" without validating or executing anything.
C26_FirstSelectStatement ==
    Called("_extract_sql") =>
        /\ a_result = Returned(FirstSelectStatement(a_call.args[1]))
        /\ (InQuery /\ a_result.value = <<>>) =>
               /\ sql_query = <<>>
               /\ pc \in {"validate", "done"}
               /\ qlog.validated = {}
               /\ qlog.executed = {}
               /\ \A i \in 1..Len(qlog.stages) : qlog.stages[i] # "validate"
               /\ calls.db_execute = 0
               /\ pc = "done" => response = QueryFailure(ErrNoSql, <<>>)

\* "Here is the query:", "select region", "FROM sales;": the prose before
\* the statement is left out and the two lines are joined
C26_Witness ==
    /\ Called("_extract_sql")
    /\ a_call.args[1] = JoinWith(<<LineProse, LineOpen, LineFrom>>, <<"\n">>)
    /\ a_result.value = JoinWith(<<LineOpen, LineFrom>>, <<" ">>)
    /\ QueryDone
    /\ response.success

\* no line of the response starts with SELECT and the query has failed
C26_WitnessNoSelect ==
    /\ Called("_extract_sql")
    /\ a_call.args[1] = JoinWith(<<LineProse, LineDelete>>, <<"\n">>)
    /\ QueryDone
    /\ response = QueryFailure(ErrNoSql, <<>>)

\* C27: for a successful query with n result rows the response has
\* row_count n and all n formatted rows; when the explanation call is made
\* its context holds exactly the first min(n, 10) rows, and the note of
\* n - 10 more rows if and only if n > 10.
C27_PreviewCapsOnlyTheContext ==
    (QueryDone /\ response.success) =>
        LET n == results
            sent == qlog.context
        IN  /\ n >= 0
            /\ response.row_count = n
            /\ response.results = Rows(n)
            /\ calls.llm_explain > 0 =>
                 /\ sent.rows = SubSeq(response.results, 1, Min(n, 10))
                 /\ sent.more > 0 <=> n > 10
                 /\ n > 10 => sent.more = n - 10
                 /\ n <= 10 => sent.more = 0
            /\ calls.llm_explain = 0 => sent = NoContext

\* eleven rows: ten sent with the note of one more, eleven returned
C27_Witness ==
    /\ QueryDone
    /\ response.success
    /\ response.row_count = PreviewLimit + 1
    /\ Len(response.results) = PreviewLimit + 1
    /\ calls.llm_explain = 1
    /\ Len(qlog.context.rows) = PreviewLimit
    /\ qlog.context.more = 1

\* both requests have updated the generated row, with update_status set
BothUpdated ==
    /\ Called("generate_inventory")
    /\ \A w \in Writers :
         /\ InFlight(w, "done")
         /\ sessions[w].id = 1
         /\ sessions[w].update_status
         /\ sessions[w].found
         /\ sessions[w].result.status = "ok"

\* C28: two concurrent update_stock calls on one record with changes a and
\* b leave, under every interleaving of their steps, quantity_available at
\* the initial quantity + a + b and the status that follows from it.
C28_NoLostUpdate ==
    BothUpdated =>
        LET initial == a_result.value.quantity_available
            row == inventory_rows[1]
        IN  /\ row.quantity_available =
                   initial + sessions[1].quantity_change + sessions[2].quantity_change
            /\ row.status = StatusOf(row.quantity_available, row.reorder_point)

\* C29: no inventory row ever has a negative quantity_available: an
\* update_stock call whose change would take the quantity below 0 raises,
\* is rolled back, and leaves the stored rows (quantity_available, status
\* and last_restocked included) as they were.
C29_QuantityNeverNegative ==
    [][/\ \A id \in 1..Len(inventory_rows') :
              inventory_rows'[id].quantity_available >= 0
       /\ (/\ Ran("update_stock")
           /\ a_call'.args[1] <= Len(inventory_rows)
           /\ inventory_rows[a_call'.args[1]].quantity_available + a_call'.args[2] < 0)
          => /\ a_result' = Raised("IntegrityError")
             /\ inventory_rows' = inventory_rows]_vars

\* update_stock(1, -15) on a generated row with 5 in stock was refused
C29_Witness ==
    /\ Called("update_stock")
    /\ a_call.args = <<1, -15, TRUE>>
    /\ a_result = Raised("IntegrityError")
    /\ Len(inventory_rows) > 0
    /\ inventory_rows[1].quantity_available = 5
    /\ inventory_rows[1].status = "low"
    /\ inventory_rows[1].last_restocked = "generated"

\* C30: in InsightsService a record is stored only after a successful
\* gateway call: when the gateway call of generate_sales_insights,
\* generate_inventory_insights, analyze_anomalies or analyze_trends fails
\* the insight history is left as it was, and analyze_anomalies with no
\* anomaly detected calls the gateway not at all and stores nothing.
C30_StoredOnlyAfterTheCall ==
    [][(Idle /\ op' \in InsightsOps) =>
          /\ (raised' # NoException /\ raised'.origin = "llm") =>
                 /\ calls'.llm = 1
                 /\ insight_history' = insight_history
          /\ insight_history' # insight_history =>
                 /\ calls'.llm = 1
                 /\ raised' = NoException
                 /\ response' # NoResponse
          /\ (op' = "analyze_anomalies" /\ raised' = NoException
                                        /\ response'.anomalies = <<>>) =>
                 /\ calls' = NoCalls
                 /\ insight_history' = insight_history]_vars

\* the gateway call of analyze_anomalies failed and nothing was stored
C30_Witness ==
    /\ pc = "done"
    /\ op = "analyze_anomalies"
    /\ raised = Escapes("LLMServiceError", "llm")
    /\ calls.llm = 1
    /\ sales = AnomalySales
    /\ insight_history = <<>>

\* no anomaly was detected: no gateway call, nothing stored
C30_WitnessNoAnomalies ==
    /\ pc = "done"
    /\ op = "analyze_anomalies"
    /\ raised = NoException
    /\ response.anomalies = <<>>
    /\ calls = NoCalls
    /\ insight_history = <<>>

====
